---- MODULE Spec2Model ----
(***************************************************************************)
(* State-machine model of ss_lib (src/src/ss_lib.c): the signal registry,  *)
(* the priority-ordered slot lists and the emission walk with tombstones   *)
(* and deferred sweep, for both storage back ends (heap-allocated lists    *)
(* and the SS_USE_STATIC_MEMORY pool).                                     *)
(*                                                                         *)
(* Memory is modelled as cells: a signal record or a slot record lives in  *)
(* a numbered cell, a pointer is a cell number and 0 is the NULL pointer.  *)
(* slot_used / signal_used tell whether a cell is allocated; in the        *)
(* static build they are the code's occupancy arrays, in the dynamic build *)
(* they are the allocator's book-keeping.  Slot user_data is passed        *)
(* through to the callback untouched and is left out.                      *)
(***************************************************************************)
EXTENDS Integers, Sequences, FiniteSets, TLC

VARIABLES
    use_static,   \* SS_USE_STATIC_MEMORY of the build (fixed per behaviour)
    env,          \* what the application does (fixed per behaviour): the
                  \* names it passes and the API functions its callbacks call
    g_context,    \* the ss_context_t record and the cells it owns
    stack,        \* ss_emit activations, innermost last
    ub,           \* "none", or how a read of released heap memory ended
    reg_names,    \* history: names whose last successful call was a register
    disconnected, \* history: handles for which ss_disconnect_handle returned SS_OK
    unregistered, \* history: handles of signals unregistered while not emitting
    flush,        \* the activation of ss_flush_deferred, when one is running;
                  \* history: from (serial when it began), snap (payloads
                  \* queued when it began) and log (payloads emitted)
    heap_strings, \* the strdup'ed payload strings not yet freed
    serial,       \* the next payload value the application passes
    g_isr_queue,  \* the capture queue of ss_emit_from_isr
    batch,        \* the ss_batch_t object of the application
    mutex,        \* g_context->mutex: its kind, owner and recursion count
    pc,           \* per thread: where it is in the API call it is making
    actor,        \* history: the thread that took the last step
    deferred_ok,  \* history: ss_emit_deferred calls that returned SS_OK
    twin,         \* the context of the same application in the other build
    pending,      \* the call the other build has yet to make, and what
                  \* the two builds answered to the last call
    report        \* the installed error handler, and history: the function
                  \* called last, its code and the codes the handler got

registry_vars ==
    <<use_static, env, g_context, stack, ub, reg_names, disconnected,
      unregistered>>
deferred_vars == <<flush, heap_strings, serial, g_isr_queue, batch>>
thread_vars == <<mutex, pc, actor, deferred_ok>>
build_vars == <<twin, pending>>
report_vars == <<report>>

vars == <<registry_vars, deferred_vars, thread_vars, build_vars, report_vars>>

----------------------------------------------------------------------------
(* Configuration (ss_config.h); the numbers are a small configuration of   *)
(* the #ifndef-guarded macros.                                             *)

SS_MAX_SIGNAL_NAME_LENGTH == 3
SS_MAX_SIGNALS == 2
SS_MAX_SLOTS == 3
SS_DEFAULT_MAX_SLOTS_PER_SIGNAL == 100

SS_PRIORITY_NORMAL == 5
SS_PRIORITY_HIGH == 10

(* Queue sizes: SS_DEFERRED_QUEUE_SIZE has no default in the sources,      *)
(* SS_ISR_QUEUE_SIZE defaults to 16 in ss_config.h.                        *)
SS_DEFERRED_QUEUE_SIZE == 2
SS_ISR_QUEUE_SIZE == 2

(* Bounds of the exploration. *)
MaxHandle == 3      \* successful connects per behaviour
MaxDepth == 1       \* nested ss_emit activations
MaxSerial == 4      \* payloads passed per behaviour
MaxNesting == 2     \* nested ss_emit activations of the emitting thread

SigIds == 1..SS_MAX_SIGNALS
SlotIds == 1..SS_MAX_SLOTS

NULL == <<"NULL">>                       \* the NULL char pointer
AName(n) == [i \in 1..n |-> "a"]         \* the string "a...a" of length n
HandleInputs == 0..MaxHandle

(* An ss_data_t: its type tag and its value (for a string, the pointer). *)
ZeroData == [type |-> "SS_TYPE_VOID", value |-> 0]
ZeroSlot == [func |-> "NULL", priority |-> 0, handle |-> 0, next |-> 0,
             removed |-> FALSE]
ZeroEntry == [signal_name |-> <<>>, data |-> ZeroData, has_string |-> FALSE]
ZeroSig == [name |-> NULL, description |-> "NULL", slots |-> 0,
            slot_count |-> 0, priority |-> 0, emitting |-> 0, next |-> 0]

MinOf(S) == CHOOSE x \in S : \A y \in S : x <= y

Range(q) == {q[i] : i \in 1..Len(q)}

----------------------------------------------------------------------------
(* ss_strscpy: copy at most count-1 characters; ret is the number copied  *)
(* or -1 when the source did not fit.                                      *)
ss_strscpy(src, count) ==
    IF count = 0 THEN [dst |-> <<>>, ret |-> -1]
    ELSE LET n == IF Len(src) < count - 1 THEN Len(src) ELSE count - 1
         IN  [dst |-> SubSeq(src, 1, n),
              ret |-> IF Len(src) > n THEN -1 ELSE n]

(* The cells reached from slot pointer c by following next. *)
RECURSIVE Chain(_, _, _)
Chain(C, c, fuel) ==
    IF c = 0 \/ fuel = 0 THEN <<>>
    ELSE <<c>> \o Chain(C, C.slot[c].next, fuel - 1)

SlotList(C, s) == Chain(C, C.sig[s].slots, SS_MAX_SLOTS + 1)

(* The signal records reached from g_context->signals (dynamic build). *)
RECURSIVE SigChain(_, _, _)
SigChain(C, s, fuel) ==
    IF s = 0 \/ fuel = 0 THEN <<>>
    ELSE <<s>> \o SigChain(C, C.sig[s].next, fuel - 1)

(* The used entries of the static signal array, by index. *)
RECURSIVE UsedSignals(_, _)
UsedSignals(C, i) ==
    IF i > SS_MAX_SIGNALS THEN <<>>
    ELSE (IF C.signal_used[i] THEN <<i>> ELSE <<>>) \o UsedSignals(C, i + 1)

(* The registered signals in the order the code scans them. *)
SignalOrder(C) ==
    IF use_static THEN UsedSignals(C, 1)
    ELSE SigChain(C, C.signals, SS_MAX_SIGNALS + 1)

find_signal(C, name) ==
    IF name = NULL THEN 0
    ELSE LET ord == SignalOrder(C)
             hit == {i \in 1..Len(ord) : C.sig[ord[i]].name = name}
         IN  IF hit = {} THEN 0 ELSE ord[MinOf(hit)]

----------------------------------------------------------------------------
(* Slot storage. *)

FreeSlotCells(C) == {c \in SlotIds : ~C.slot_used[c]}

(* Variant of allocate_slot that counts the slot before it looks for an    *)
(* unused entry.                                                           *)
allocate_slot_counting(C) ==
    IF FreeSlotCells(C) = {}
    THEN [ctx |-> [C EXCEPT !.slot_count = @ + 1], cell |-> 0]
    ELSE LET c == MinOf(FreeSlotCells(C))
         IN  [ctx |-> [C EXCEPT !.slot_used[c] = TRUE,
                                !.slot_count = @ + 1],
              cell |-> c]

(* allocate_slot (static): first unused pool entry, not cleared. *)
allocate_slot(C) ==
    IF FreeSlotCells(C) = {} THEN [ctx |-> C, cell |-> 0]
    ELSE LET c == MinOf(FreeSlotCells(C))
         IN  [ctx |-> [C EXCEPT !.slot_used[c] = TRUE,
                                !.slot_count = @ + 1],
              cell |-> c]

(* free_slot (static): mark unused, count down, clear the entry. *)
free_slot(C, c) ==
    [C EXCEPT !.slot_used[c] = FALSE,
              !.slot_count = @ - 1,
              !.slot[c] = ZeroSlot]

(* SS_CALLOC of a slot (dynamic): cell c comes back zeroed. *)
calloc_slot(C, c) ==
    [C EXCEPT !.slot_used[c] = TRUE, !.slot[c] = ZeroSlot]

(* SS_FREE of a slot (dynamic): the block is released, its bytes stay. *)
heap_free_slot(C, c) ==
    [C EXCEPT !.slot_used[c] = FALSE]

release_slot(C, c) ==
    IF use_static THEN free_slot(C, c) ELSE heap_free_slot(C, c)

(* sweep_removed_slots: unlink and release every slot marked removed. *)
RECURSIVE sweep_loop(_, _, _, _, _)
sweep_loop(C, s, prev, curr, fuel) ==
    IF curr = 0 \/ fuel = 0 THEN C
    ELSE LET next == C.slot[curr].next
         IN  IF C.slot[curr].removed
             THEN LET C1 == IF prev # 0
                            THEN [C EXCEPT !.slot[prev].next = next]
                            ELSE [C EXCEPT !.sig[s].slots = next]
                      C2 == [C1 EXCEPT !.sig[s].slot_count = @ - 1]
                  IN  sweep_loop(release_slot(C2, curr), s, prev, next, fuel - 1)
             ELSE sweep_loop(C, s, curr, next, fuel - 1)

sweep_removed_slots(C, s) ==
    sweep_loop(C, s, 0, C.sig[s].slots, SS_MAX_SLOTS + 1)

----------------------------------------------------------------------------
(* Registry operations.  Each operator maps the context C and the call's   *)
(* arguments to the context after the call and the code it returns.        *)

Result(C, r) == [ctx |-> C, ret |-> r]

FreeSigCells(C) == {s \in SigIds : ~C.signal_used[s]}

(* The cell a new signal record gets, 0 when none: the first unused array  *)
(* entry in the static build, the first free block (a first-fit allocator  *)
(* that fails when the heap is used up) in the dynamic build.              *)
SignalCell(C) ==
    IF FreeSigCells(C) = {} THEN 0 ELSE MinOf(FreeSigCells(C))

SlotCell(C) ==
    IF FreeSlotCells(C) = {} THEN 0 ELSE MinOf(FreeSlotCells(C))

(* Variant of register_checks that lets a name of exactly                  *)
(* SS_MAX_SIGNAL_NAME_LENGTH characters pass.                              *)
register_checks_one_longer(C, name) ==
    IF name = NULL \/ Len(name) = 0 THEN "SS_ERR_NULL_PARAM"
    ELSE IF Len(name) > SS_MAX_SIGNAL_NAME_LENGTH THEN "SS_ERR_WOULD_OVERFLOW"
    ELSE IF find_signal(C, name) # 0 THEN "SS_ERR_ALREADY_EXISTS"
    ELSE "SS_OK"

(* Variant of register_checks without the lookup of the name. *)
register_checks_no_lookup(C, name) ==
    IF name = NULL \/ Len(name) = 0 THEN "SS_ERR_NULL_PARAM"
    ELSE IF Len(name) >= SS_MAX_SIGNAL_NAME_LENGTH THEN "SS_ERR_WOULD_OVERFLOW"
    ELSE "SS_OK"

(* The checks of ss_signal_register_ex before it takes storage. *)
register_checks(C, name) ==
    IF name = NULL \/ Len(name) = 0 THEN "SS_ERR_NULL_PARAM"
    ELSE IF Len(name) >= SS_MAX_SIGNAL_NAME_LENGTH THEN "SS_ERR_WOULD_OVERFLOW"
    ELSE IF find_signal(C, name) # 0 THEN "SS_ERR_ALREADY_EXISTS"
    ELSE "SS_OK"

ss_signal_register_ex(C, name, description, priority, cell) ==
    IF register_checks(C, name) # "SS_OK"
    THEN Result(C, register_checks(C, name))
    ELSE IF cell = 0
    THEN Result(C, IF use_static THEN "SS_ERR_WOULD_OVERFLOW" ELSE "SS_ERR_MEMORY")
    ELSE IF use_static
    THEN LET C1 == [C EXCEPT
                      !.signal_used[cell] = TRUE,
                      !.sig[cell].name =
                          ss_strscpy(name, SS_MAX_SIGNAL_NAME_LENGTH).dst]
             C2 == IF description # "NULL"
                   THEN [C1 EXCEPT !.sig[cell].description = description]
                   ELSE C1
         IN  Result([C2 EXCEPT !.sig[cell].priority = priority,
                               !.signal_count = @ + 1], "SS_OK")
    ELSE Result([C EXCEPT
                   !.signal_used[cell] = TRUE,
                   !.sig[cell] = [ZeroSig EXCEPT !.name = name,
                                                 !.description = description,
                                                 !.priority = priority,
                                                 !.next = C.signals],
                   !.signals = cell,
                   !.signal_count = @ + 1], "SS_OK")

ss_signal_exists(C, name) ==
    IF name = NULL THEN 0
    ELSE IF find_signal(C, name) # 0 THEN 1 ELSE 0

(* Release of a signal's slots in ss_signal_unregister: the static build   *)
(* clears the occupancy flag and counts down without clearing the entry,   *)
(* the dynamic build frees each node.                                      *)
RECURSIVE unregister_slots(_, _, _)
unregister_slots(C, curr, fuel) ==
    IF curr = 0 \/ fuel = 0 THEN C
    ELSE LET next == C.slot[curr].next
             C1 == IF use_static
                   THEN [C EXCEPT !.slot_used[curr] = FALSE,
                                  !.slot_count = @ - 1]
                   ELSE heap_free_slot(C, curr)
         IN  unregister_slots(C1, next, fuel - 1)

(* Variant of unlink_signal that leaves the list as it is. *)
unlink_signal_skipped(C, s) == C

(* Unlinking of record s from the dynamic signal list. *)
unlink_signal(C, s) ==
    IF C.signals = s THEN [C EXCEPT !.signals = C.sig[s].next]
    ELSE LET before == {p \in SigIds : C.signal_used[p] /\ C.sig[p].next = s}
         IN  IF before = {} THEN C
             ELSE LET p == CHOOSE q \in before : TRUE
                  IN  [C EXCEPT !.sig[p].next = C.sig[s].next]

(* Variant of clear_slot_list that leaves the list head and the count. *)
clear_slot_list_skipped(C, s) == C

(* sig->slots = NULL and sig->slot_count = 0 of ss_signal_unregister. *)
clear_slot_list(C, s) ==
    [C EXCEPT !.sig[s].slots = 0, !.sig[s].slot_count = 0]

ss_signal_unregister(C, name) ==
    IF name = NULL THEN Result(C, "SS_ERR_NULL_PARAM")
    ELSE LET s == find_signal(C, name)
         IN  IF s = 0 THEN Result(C, "SS_ERR_NOT_FOUND")
             ELSE LET C1 == unregister_slots(C, C.sig[s].slots, SS_MAX_SLOTS + 1)
                      C2 == clear_slot_list(C1, s)
                  IN  IF use_static
                      THEN Result([C2 EXCEPT !.signal_used[s] = FALSE,
                                             !.signal_count = @ - 1], "SS_OK")
                      ELSE LET C3 == unlink_signal(C2, s)
                           IN  Result([C3 EXCEPT !.signal_used[s] = FALSE,
                                                 !.signal_count = @ - 1],
                                      "SS_OK")

(* Variant of insert_scan that also passes slots of equal priority only   *)
(* when strictly higher: the new slot lands before its equals.             *)
RECURSIVE insert_scan_before_equals(_, _, _, _)
insert_scan_before_equals(C, p, priority, fuel) ==
    IF fuel > 0 /\ C.slot[p].next # 0
       /\ C.slot[C.slot[p].next].priority > priority
    THEN insert_scan_before_equals(C, C.slot[p].next, priority, fuel - 1)
    ELSE p

(* Priority-sorted insertion of the new slot n into the list of signal s. *)
RECURSIVE insert_scan(_, _, _, _)
insert_scan(C, p, priority, fuel) ==
    IF fuel > 0 /\ C.slot[p].next # 0
       /\ C.slot[C.slot[p].next].priority >= priority
    THEN insert_scan(C, C.slot[p].next, priority, fuel - 1)
    ELSE p

insert_slot(C, s, n, priority) ==
    LET head == C.sig[s].slots
    IN  IF head = 0 \/ priority > C.slot[head].priority
        THEN [C EXCEPT !.slot[n].next = head, !.sig[s].slots = n]
        ELSE LET p == insert_scan(C, head, priority, SS_MAX_SLOTS)
             IN  [C EXCEPT !.slot[n].next = C.slot[p].next,
                           !.slot[p].next = n]

(* Variant of slots_at_max that lets one slot more in. *)
slots_at_max_plus_one(C, s) == C.sig[s].slot_count > C.max_slots_per_signal

(* The cap check of ss_connect_ex. *)
slots_at_max(C, s) == C.sig[s].slot_count >= C.max_slots_per_signal

(* Variant of assign_handle that does not advance next_handle. *)
assign_handle_again(C, n) == [C EXCEPT !.slot[n].handle = C.next_handle]

(* new_slot->handle = g_context->next_handle++ *)
assign_handle(C, n) ==
    [C EXCEPT !.slot[n].handle = C.next_handle, !.next_handle = @ + 1]

ss_connect_ex(C, name, func, priority, cell) ==
    IF name = NULL \/ func = "NULL" THEN Result(C, "SS_ERR_NULL_PARAM")
    ELSE LET s == find_signal(C, name)
         IN  IF s = 0 THEN Result(C, "SS_ERR_NOT_FOUND")
             ELSE IF slots_at_max(C, s) THEN Result(C, "SS_ERR_MAX_SLOTS")
             ELSE LET A == IF use_static THEN allocate_slot(C)
                           ELSE [ctx |-> IF cell = 0 THEN C
                                         ELSE calloc_slot(C, cell),
                                 cell |-> cell]
                      n == A.cell
                  IN  IF n = 0
                      THEN Result(A.ctx,
                                  IF use_static THEN "SS_ERR_WOULD_OVERFLOW"
                                  ELSE "SS_ERR_MEMORY")
                      ELSE LET C1 == assign_handle(
                                         [A.ctx EXCEPT
                                            !.slot[n].func = func,
                                            !.slot[n].priority = priority], n)
                               C2 == insert_slot(C1, s, n, priority)
                           IN  Result([C2 EXCEPT !.sig[s].slot_count = @ + 1],
                                      "SS_OK")

(* Variant of remove_slot that unlinks without sig->slot_count--. *)
remove_slot_uncounted(C, s, prev, curr) ==
    IF C.sig[s].emitting # 0
    THEN [C EXCEPT !.slot[curr].removed = TRUE]
    ELSE release_slot(IF prev # 0
                      THEN [C EXCEPT !.slot[prev].next = C.slot[curr].next]
                      ELSE [C EXCEPT !.sig[s].slots = C.slot[curr].next],
                      curr)

(* Unlink-or-tombstone of slot curr (predecessor prev, 0 at the head) of   *)
(* signal s, shared by ss_disconnect_handle and ss_disconnect.             *)
remove_slot(C, s, prev, curr) ==
    IF C.sig[s].emitting # 0
    THEN [C EXCEPT !.slot[curr].removed = TRUE]
    ELSE LET C1 == IF prev # 0
                   THEN [C EXCEPT !.slot[prev].next = C.slot[curr].next]
                   ELSE [C EXCEPT !.sig[s].slots = C.slot[curr].next]
             C2 == [C1 EXCEPT !.sig[s].slot_count = @ - 1]
         IN  release_slot(C2, curr)

(* The first list node of l among the positions hit, with its predecessor. *)
FirstMatch(l, hit) ==
    IF hit = {} THEN [prev |-> 0, curr |-> 0]
    ELSE LET j == MinOf(hit)
         IN  [prev |-> IF j = 1 THEN 0 ELSE l[j - 1], curr |-> l[j]]

(* The first node of signal s whose handle is the given one. *)
find_handle(C, s, handle) ==
    LET l == SlotList(C, s)
    IN  FirstMatch(l, {j \in 1..Len(l) : C.slot[l[j]].handle = handle})

ss_disconnect_handle(C, handle) ==
    IF handle = 0 THEN Result(C, "SS_ERR_NULL_PARAM")
    ELSE LET ord == SignalOrder(C)
             hit == {i \in 1..Len(ord) : find_handle(C, ord[i], handle).curr # 0}
         IN  IF hit = {} THEN Result(C, "SS_ERR_NOT_FOUND")
             ELSE LET s == ord[MinOf(hit)]
                      m == find_handle(C, s, handle)
                  IN  Result(remove_slot(C, s, m.prev, m.curr), "SS_OK")

RECURSIVE mark_all_removed(_, _, _)
mark_all_removed(C, curr, fuel) ==
    IF curr = 0 \/ fuel = 0 THEN C
    ELSE mark_all_removed([C EXCEPT !.slot[curr].removed = TRUE],
                          C.slot[curr].next, fuel - 1)

RECURSIVE release_all(_, _, _)
release_all(C, curr, fuel) ==
    IF curr = 0 \/ fuel = 0 THEN C
    ELSE LET next == C.slot[curr].next
         IN  release_all(release_slot(C, curr), next, fuel - 1)

ss_disconnect_all(C, name) ==
    IF name = NULL THEN Result(C, "SS_ERR_NULL_PARAM")
    ELSE LET s == find_signal(C, name)
         IN  IF s = 0 THEN Result(C, "SS_ERR_NOT_FOUND")
             ELSE IF C.sig[s].emitting # 0
             THEN Result(mark_all_removed(C, C.sig[s].slots, SS_MAX_SLOTS + 1),
                         "SS_OK")
             ELSE LET C1 == release_all(C, C.sig[s].slots, SS_MAX_SLOTS + 1)
                  IN  Result([C1 EXCEPT !.sig[s].slots = 0,
                                        !.sig[s].slot_count = 0], "SS_OK")

ss_disconnect_marked_too(C, name, func) ==
    IF name = NULL \/ func = "NULL" THEN Result(C, "SS_ERR_NULL_PARAM")
    ELSE LET s == find_signal(C, name)
         IN  IF s = 0 THEN Result(C, "SS_ERR_NOT_FOUND")
             ELSE LET l == SlotList(C, s)
                      m == FirstMatch(l, {j \in 1..Len(l) :
                                            C.slot[l[j]].func = func})
                  IN  IF m.curr = 0 THEN Result(C, "SS_ERR_NOT_FOUND")
                      ELSE Result(remove_slot(C, s, m.prev, m.curr), "SS_OK")

ss_disconnect(C, name, func) ==
    IF name = NULL \/ func = "NULL" THEN Result(C, "SS_ERR_NULL_PARAM")
    ELSE LET s == find_signal(C, name)
         IN  IF s = 0 THEN Result(C, "SS_ERR_NOT_FOUND")
             ELSE LET l == SlotList(C, s)
                      m == FirstMatch(l, {j \in 1..Len(l) :
                                            /\ C.slot[l[j]].func = func
                                            /\ ~C.slot[l[j]].removed})
                  IN  IF m.curr = 0 THEN Result(C, "SS_ERR_NOT_FOUND")
                      ELSE Result(remove_slot(C, s, m.prev, m.curr), "SS_OK")

ss_get_signal_count(C) == C.signal_count

ss_set_max_slots_per_signal(C, max_slots) ==
    [C EXCEPT !.max_slots_per_signal = max_slots]

----------------------------------------------------------------------------
(* The emission walk of ss_emit.  An activation (frame) holds the signal   *)
(* pointer sig, the slot whose callback is running and the next pointer    *)
(* snapshotted before the call; name, init (handles of the slots in the   *)
(* list when the walk began), live (those of them not marked removed),     *)
(* log (handles invoked so far) and calls (the API calls made by callbacks *)
(* while the activation was on the stack) are history.                     *)

(* From slot pointer slot, skip removed slots up to the next slot to       *)
(* invoke.  released tells whether a cell that is not allocated was read.  *)
RECURSIVE walk(_, _, _)
walk(C, slot, fuel) ==
    IF slot = 0 THEN [kind |-> "end", slot |-> 0, released |-> FALSE]
    ELSE IF fuel = 0 THEN [kind |-> "hang", slot |-> 0, released |-> FALSE]
    ELSE IF ~C.slot[slot].removed
    THEN [kind |-> "invoke", slot |-> slot, released |-> ~C.slot_used[slot]]
    ELSE LET r == walk(C, C.slot[slot].next, fuel - 1)
         IN  [r EXCEPT !.released = @ \/ ~C.slot_used[slot]]

(* End of the walk: emitting--, and the sweep once it is back to zero. *)
emit_finish(C, s) ==
    LET C1 == [C EXCEPT !.sig[s].emitting = @ - 1]
    IN  IF C1.sig[s].emitting = 0 THEN sweep_removed_slots(C1, s) ELSE C1

(* Content of released heap blocks is indeterminate; it is kept while an   *)
(* activation may still hold a pointer into it and cleared otherwise.      *)
Normalise(C, stk) ==
    IF use_static \/ stk # <<>> THEN C
    ELSE [C EXCEPT
            !.slot = [c \in SlotIds |->
                        IF C.slot_used[c] THEN C.slot[c] ELSE ZeroSlot],
            !.sig = [s \in SigIds |->
                        IF C.signal_used[s] THEN C.sig[s] ELSE ZeroSig]]

(* calls of an activation: "none", the one API function its callbacks      *)
(* called so far, or "mixed" when they called more than one.               *)
AddCall(stk, op) ==
    [i \in 1..Len(stk) |->
        [stk[i] EXCEPT !.calls = IF @ \in {"none", op} THEN op ELSE "mixed"]]

ListHandles(C, s) ==
    LET l == SlotList(C, s)
    IN  [j \in 1..Len(l) |-> C.slot[l[j]].handle]

LiveHandles(C, s) ==
    LET l == SelectSeq(SlotList(C, s), LAMBDA c : ~C.slot[c].removed)
    IN  [j \in 1..Len(l) |-> C.slot[l[j]].handle]

(* The value ss_emit returns: that of its parameter check and signal       *)
(* lookup, SS_OK once the walk is done.                                    *)
ss_emit_ret(C, name) ==
    IF name = NULL THEN "SS_ERR_NULL_PARAM"
    ELSE IF find_signal(C, name) = 0 THEN "SS_ERR_NOT_FOUND"
    ELSE "SS_OK"

Running == ub \notin {"crashed", "hang"}

(* The application calls op with signal name name: from its main line, or  *)
(* from a running callback when its callbacks make such calls.             *)
Calls(op) ==
    /\ Running
    /\ stack = <<>> \/ op \in env.handler_ops

ApiFunctions ==
    {"ss_signal_register_ex", "ss_signal_unregister", "ss_signal_exists",
     "ss_connect_ex", "ss_disconnect_handle", "ss_disconnect_all",
     "ss_disconnect", "ss_set_max_slots_per_signal", "ss_emit"}

(* No ss_emit is active on signal s: its emitting depth is zero and no     *)
(* activation walks it.                                                    *)
NotEmitting(s) ==
    /\ g_context.sig[s].emitting = 0
    /\ \A i \in 1..Len(stack) : stack[i].sig # s

(* A registry call other than ss_emit returns. *)
Return(op, R) ==
    /\ g_context' = Normalise(R.ctx, stack)
    /\ stack' = AddCall(stack, op)
    /\ UNCHANGED <<use_static, env, ub>>

(* The state after ss_init. *)
InitContext ==
    [sig |-> [s \in SigIds |-> ZeroSig],
     signal_used |-> [s \in SigIds |-> FALSE],
     signals |-> 0,
     signal_count |-> 0,
     slot |-> [c \in SlotIds |-> ZeroSlot],
     slot_used |-> [c \in SlotIds |-> FALSE],
     slot_count |-> 0,
     max_slots_per_signal |-> SS_DEFAULT_MAX_SLOTS_PER_SIGNAL,
     next_handle |-> 1,
     thread_safe |-> FALSE,
     deferred_queue |-> [i \in 0..SS_DEFERRED_QUEUE_SIZE - 1 |-> ZeroEntry],
     deferred_count |-> 0,
     allocated |-> TRUE]

(* The walk of activation f goes on from slot pointer from, above the      *)
(* activations below.  In the dynamic build a read of a released slot or   *)
(* signal record is undefined: the process either dies (ub = "crashed":    *)
(* its memory is gone, and the history with it), or goes on with the bytes *)
(* found there (ub = "stale").  A walk that never ends is ub = "hang".     *)
emit_walk(C, f, from, below) ==
    LET w == walk(C, from, 2 * SS_MAX_SLOTS + 2)
        dangling == /\ ~use_static
                    /\ \/ w.released
                       \/ w.kind = "end" /\ ~C.signal_used[f.sig]
        outcomes == IF w.kind = "hang" THEN {"hang"}
                    ELSE IF dangling THEN {"crashed", "stale"}
                    ELSE {ub}
    IN  \E outcome \in outcomes :
            /\ ub' = outcome
            /\ UNCHANGED <<use_static, env>>
            /\ IF outcome \in {"hang", "crashed"}
               THEN /\ g_context' = InitContext
                    /\ stack' = <<>>
                    /\ reg_names' = {}
                    /\ disconnected' = {}
                    /\ unregistered' = {}
               ELSE IF w.kind = "invoke"
               THEN /\ g_context' = C
                    /\ UNCHANGED <<reg_names, disconnected, unregistered>>
                    /\ stack' = Append(below,
                          [f EXCEPT !.slot = w.slot,
                                    !.next_slot = C.slot[w.slot].next,
                                    !.log = Append(@, C.slot[w.slot].handle)])
               ELSE /\ g_context' = Normalise(emit_finish(C, f.sig), below)
                    /\ stack' = below
                    /\ UNCHANGED <<reg_names, disconnected, unregistered>>

----------------------------------------------------------------------------
(* Deferred emission, batches, interrupt capture and ss_cleanup.  A payload *)
(* is an ss_data_t; the application numbers its payloads (serial), and a   *)
(* string payload numbered k points to string k, whose strdup copy is heap *)
(* block k.  The heap always has room for a payload string.                *)

NoData == [type |-> "NULL", value |-> 0]  \* the NULL ss_data_t pointer

IsString(data) == data # NoData /\ data.type = "SS_TYPE_STRING" /\ data.value # 0

(* The entry ss_emit_deferred and ss_batch_add write: the name through     *)
(* ss_strscpy, whose result is not looked at, the payload by value, a      *)
(* string payload duplicated.                                              *)
deferred_entry(name, data) ==
    [signal_name |-> ss_strscpy(name, SS_MAX_SIGNAL_NAME_LENGTH).dst,
     data |-> IF data = NoData THEN ZeroData ELSE data,
     has_string |-> IsString(data)]

(* dup is the heap block the call allocated, 0 when none. *)
ss_emit_deferred(C, name, data) ==
    IF ~C.allocated \/ name = NULL
    THEN [ctx |-> C, ret |-> "SS_ERR_NULL_PARAM", dup |-> 0]
    ELSE IF C.deferred_count >= SS_DEFERRED_QUEUE_SIZE
    THEN [ctx |-> C, ret |-> "SS_ERR_WOULD_OVERFLOW", dup |-> 0]
    ELSE [ctx |-> [C EXCEPT !.deferred_queue[C.deferred_count] =
                                deferred_entry(name, data),
                            !.deferred_count = @ + 1],
          ret |-> "SS_OK",
          dup |-> IF IsString(data) THEN data.value ELSE 0]

(* ss_batch_create: a zeroed ss_batch_t. *)
ss_batch_create ==
    [entries |-> [i \in 0..SS_DEFERRED_QUEUE_SIZE - 1 |-> ZeroEntry],
     count |-> 0,
     allocated |-> TRUE]

(* The NULL ss_batch_t pointer. *)
NoBatch == [ss_batch_create EXCEPT !.allocated = FALSE]

ss_batch_add_wrapping(B, name, data) ==
    IF ~B.allocated \/ name = NULL
    THEN [batch |-> B, ret |-> "SS_ERR_NULL_PARAM", dup |-> 0]
    ELSE LET at == IF B.count >= SS_DEFERRED_QUEUE_SIZE
                   THEN SS_DEFERRED_QUEUE_SIZE - 1 ELSE B.count
         IN  [batch |-> [B EXCEPT !.entries[at] = deferred_entry(name, data),
                                  !.count = at + 1],
              ret |-> "SS_OK",
              dup |-> IF IsString(data) THEN data.value ELSE 0]

ss_batch_add(B, name, data) ==
    IF ~B.allocated \/ name = NULL
    THEN [batch |-> B, ret |-> "SS_ERR_NULL_PARAM", dup |-> 0]
    ELSE IF B.count >= SS_DEFERRED_QUEUE_SIZE
    THEN [batch |-> B, ret |-> "SS_ERR_WOULD_OVERFLOW", dup |-> 0]
    ELSE [batch |-> [B EXCEPT !.entries[B.count] = deferred_entry(name, data),
                              !.count = @ + 1],
          ret |-> "SS_OK",
          dup |-> IF IsString(data) THEN data.value ELSE 0]

(* The strings of the first count entries of an entry array. *)
EntryStrings(entries, count) ==
    {entries[i].data.value : i \in {j \in 0..count - 1 : entries[j].has_string}}

(* ss_batch_destroy: the blocks it frees. *)
ss_batch_destroy(B) ==
    IF ~B.allocated THEN {} ELSE EntryStrings(B.entries, B.count)

ZeroIsr == [signal_name |-> <<>>, value |-> 0, pending |-> FALSE]

(* ss_emit_from_isr: the first slot that is not pending takes the name     *)
(* (through ss_strscpy, result not looked at) and the value.               *)
ss_emit_from_isr(Q, name, value) ==
    IF name = NULL THEN [queue |-> Q, ret |-> "SS_ERR_NULL_PARAM"]
    ELSE LET free == {i \in DOMAIN Q : ~Q[i].pending}
         IN  IF free = {} THEN [queue |-> Q, ret |-> "SS_ERR_WOULD_OVERFLOW"]
             ELSE [queue |-> [Q EXCEPT ![MinOf(free)] =
                      [signal_name |->
                           ss_strscpy(name, SS_MAX_SIGNAL_NAME_LENGTH).dst,
                       value |-> value,
                       pending |-> TRUE]],
                   ret |-> "SS_OK"]

(* The context after memset(g_context, 0, sizeof(ss_context_t)). *)
ZeroContext ==
    [InitContext EXCEPT !.max_slots_per_signal = 0, !.next_handle = 0]

(* The slot cells of the lists of the signals in sigs. *)
ListedSlots(C, sigs) ==
    UNION {Range(SlotList(C, sigs[i])) : i \in 1..Len(sigs)}

(* ss_cleanup: ctx is the released context (allocated = FALSE stands for   *)
(* g_context = NULL), freed the payload strings it frees.  The static      *)
(* build clears the context, deferred_count included, before the loop      *)
(* over the deferred queue; its pools go with the context.  The dynamic    *)
(* build frees the signals of the list and the slots of their lists.       *)
ss_cleanup(C) ==
    IF ~C.allocated THEN [ctx |-> C, freed |-> {}]
    ELSE IF use_static
    THEN [ctx |-> [ZeroContext EXCEPT !.allocated = FALSE],
          freed |-> EntryStrings(ZeroContext.deferred_queue,
                                 ZeroContext.deferred_count)]
    ELSE LET sigs == SigChain(C, C.signals, SS_MAX_SIGNALS + 1)
             slots == ListedSlots(C, sigs)
         IN  [ctx |-> [ZeroContext EXCEPT
                         !.signal_used = [s \in SigIds |->
                             C.signal_used[s] /\ s \notin Range(sigs)],
                         !.slot_used = [c \in SlotIds |->
                             C.slot_used[c] /\ c \notin slots],
                         !.allocated = FALSE],
              freed |-> EntryStrings(C.deferred_queue, C.deferred_count)]

(* ss_init: a zeroed context with the defaults, or the one there is. *)
ss_init(C) ==
    IF C.allocated THEN C
    ELSE [InitContext EXCEPT !.signal_used = C.signal_used,
                             !.slot_used = C.slot_used]

IdleFlush ==
    [active |-> FALSE, at |-> "emit", i |-> 0, count |-> 0,
     result |-> "SS_OK", from |-> 0, snap |-> <<>>, names |-> <<>>,
     log |-> <<>>]

DeferredInit ==
    /\ flush = IdleFlush
    /\ heap_strings = {}
    /\ serial = 1
    /\ g_isr_queue = [i \in 0..SS_ISR_QUEUE_SIZE - 1 |-> ZeroIsr]
    /\ batch = NoBatch

Threads == {1, 2}

NoCall == [op |-> "none", name |-> NULL, desc |-> "NULL", priority |-> 0,
           func |-> "NULL", handle |-> 0]

(* pc of a thread that is in no API call.  at is where the thread is in    *)
(* the call it makes, idx the queue index ss_emit_deferred has read.       *)
Idle == [at |-> "idle", call |-> NoCall, idx |-> 0]

(* No thread has called the library; the mutex is not initialised. *)
ThreadsInit ==
    /\ mutex = [kind |-> "none", owner |-> 0, count |-> 0]
    /\ pc = [t \in Threads |-> Idle]
    /\ actor = 0
    /\ deferred_ok = 0

NoAnswer == [ret |-> "none", invoked |-> <<>>, list |-> {}, count |-> 0]

BuildsInit ==
    /\ twin = InitContext
    /\ pending = [call |-> NoCall, first |-> NoAnswer, second |-> NoAnswer]

(* No error handler is installed (the context is zeroed by ss_init) and no *)
(* call was made.                                                          *)
NoReport == [handler |-> FALSE, op |-> "none", ret |-> "none", codes |-> <<>>]

ReportInit == report = NoReport

----------------------------------------------------------------------------
InitCommon ==
    /\ g_context = InitContext
    /\ stack = <<>>
    /\ ub = "none"
    /\ reg_names = {}
    /\ disconnected = {}
    /\ unregistered = {}

(* The application (env): the signal names, callback functions, slot      *)
(* priorities, register arguments <<description, priority>> and slot caps  *)
(* it passes, and the API functions its callbacks call.                    *)

(* One registrable name; callbacks call anything. *)
AnyCalls ==
    [names |-> {NULL, AName(0), AName(SS_MAX_SIGNAL_NAME_LENGTH - 1),
                AName(SS_MAX_SIGNAL_NAME_LENGTH)},
     funcs |-> {"NULL", "f1"},
     priorities |-> {SS_PRIORITY_NORMAL, SS_PRIORITY_HIGH},
     regs |-> {<<"d", SS_PRIORITY_HIGH>>},
     caps |-> {1, 2},
     handler_ops |-> ApiFunctions]

(* Names of every length up to one over the limit, two of them             *)
(* registrable; callbacks call nothing.                                    *)
QuietCallbacks ==
    [names |-> {NULL} \cup {AName(n) : n \in 0..SS_MAX_SIGNAL_NAME_LENGTH + 1},
     funcs |-> {"f1"},
     priorities |-> {SS_PRIORITY_NORMAL},
     regs |-> {<<"NULL", SS_PRIORITY_NORMAL>>, <<"d", SS_PRIORITY_HIGH>>},
     caps |-> {2},
     handler_ops |-> {}]

(* Either build, either application. *)
Init ==
    /\ use_static \in BOOLEAN
    /\ env \in {AnyCalls, QuietCallbacks}
    /\ InitCommon
    /\ DeferredInit
    /\ ThreadsInit
    /\ BuildsInit
    /\ ReportInit

----------------------------------------------------------------------------
(* Actions: one per API call, made by the application or by a running      *)
(* callback, plus the return of the running callback.                      *)

Register(name, d) ==
    /\ Calls("ss_signal_register_ex")
    /\ LET R == ss_signal_register_ex(g_context, name, d[1], d[2],
                                      SignalCell(g_context))
       IN  /\ Return("ss_signal_register_ex", R)
           /\ reg_names' = IF R.ret = "SS_OK" THEN reg_names \cup {name}
                           ELSE reg_names
    /\ UNCHANGED <<disconnected, unregistered>>

Unregister(name) ==
    /\ Calls("ss_signal_unregister")
    /\ LET R == ss_signal_unregister(g_context, name)
       IN  /\ Return("ss_signal_unregister", R)
           /\ reg_names' = IF R.ret = "SS_OK" THEN reg_names \ {name}
                           ELSE reg_names
           /\ unregistered' =
                  IF R.ret = "SS_OK" /\ NotEmitting(find_signal(g_context, name))
                  THEN unregistered
                         \cup Range(ListHandles(g_context,
                                                find_signal(g_context, name)))
                  ELSE unregistered
    /\ UNCHANGED disconnected

Exists(name) ==
    /\ Calls("ss_signal_exists")
    /\ Return("ss_signal_exists",
              Result(g_context,
                     IF ss_signal_exists(g_context, name) = 1 THEN "1" ELSE "0"))
    /\ UNCHANGED <<reg_names, disconnected, unregistered>>

Connect(name, func, priority) ==
    /\ Calls("ss_connect_ex")
    /\ g_context.next_handle <= MaxHandle
    /\ Return("ss_connect_ex",
              ss_connect_ex(g_context, name, func, priority,
                            SlotCell(g_context)))
    /\ UNCHANGED <<reg_names, disconnected, unregistered>>

DisconnectHandle(handle) ==
    /\ Calls("ss_disconnect_handle")
    /\ LET R == ss_disconnect_handle(g_context, handle)
       IN  /\ Return("ss_disconnect_handle", R)
           /\ disconnected' = IF R.ret = "SS_OK"
                              THEN disconnected \cup {handle}
                              ELSE disconnected
    /\ UNCHANGED <<reg_names, unregistered>>

DisconnectAll(name) ==
    /\ Calls("ss_disconnect_all")
    /\ Return("ss_disconnect_all", ss_disconnect_all(g_context, name))
    /\ UNCHANGED <<reg_names, disconnected, unregistered>>

Disconnect(name, func) ==
    /\ Calls("ss_disconnect")
    /\ Return("ss_disconnect", ss_disconnect(g_context, name, func))
    /\ UNCHANGED <<reg_names, disconnected, unregistered>>

SetMaxSlots(max_slots) ==
    /\ Calls("ss_set_max_slots_per_signal")
    /\ Return("ss_set_max_slots_per_signal",
              Result(ss_set_max_slots_per_signal(g_context, max_slots), "void"))
    /\ UNCHANGED <<reg_names, disconnected, unregistered>>

(* ss_emit up to its first callback, or to its return when none is called. *)
EmitUpTo(name, depth) ==
    /\ Calls("ss_emit")
    /\ Len(stack) < depth
    /\ LET s == find_signal(g_context, name)
           below == AddCall(stack, "ss_emit")
       IN  IF ss_emit_ret(g_context, name) # "SS_OK"
           THEN /\ stack' = below
                /\ UNCHANGED <<use_static, env, g_context, ub, reg_names,
                               disconnected, unregistered>>
           ELSE LET C == [g_context EXCEPT !.sig[s].emitting = @ + 1]
                    f == [sig |-> s, slot |-> 0, next_slot |-> 0,
                          name |-> name, init |-> ListHandles(C, s),
                          live |-> LiveHandles(C, s),
                          log |-> <<>>, calls |-> "none"]
                IN  emit_walk(C, f, C.sig[s].slots, below)

Emit(name) == EmitUpTo(name, MaxDepth)

(* The running callback returns and ss_emit goes on with next_slot. *)
HandlerReturn ==
    /\ Running
    /\ stack # <<>>
    /\ LET f == stack[Len(stack)]
       IN  emit_walk(g_context, f, f.next_slot, SubSeq(stack, 1, Len(stack) - 1))

Next ==
    \/ \E name \in env.names, d \in env.regs :
          Register(name, d) /\ UNCHANGED <<deferred_vars, thread_vars, build_vars, report_vars>>
    \/ \E name \in env.names :
          Unregister(name) /\ UNCHANGED <<deferred_vars, thread_vars, build_vars, report_vars>>
    \/ \E name \in env.names :
          Exists(name) /\ UNCHANGED <<deferred_vars, thread_vars, build_vars, report_vars>>
    \/ \E name \in env.names, func \in env.funcs, priority \in env.priorities :
          Connect(name, func, priority) /\ UNCHANGED <<deferred_vars, thread_vars, build_vars, report_vars>>
    \/ \E handle \in HandleInputs :
          DisconnectHandle(handle) /\ UNCHANGED <<deferred_vars, thread_vars, build_vars, report_vars>>
    \/ \E name \in env.names :
          DisconnectAll(name) /\ UNCHANGED <<deferred_vars, thread_vars, build_vars, report_vars>>
    \/ \E name \in env.names, func \in env.funcs :
          Disconnect(name, func) /\ UNCHANGED <<deferred_vars, thread_vars, build_vars, report_vars>>
    \/ \E max_slots \in env.caps :
          SetMaxSlots(max_slots) /\ UNCHANGED <<deferred_vars, thread_vars, build_vars, report_vars>>
    \/ \E name \in env.names :
          Emit(name) /\ UNCHANGED <<deferred_vars, thread_vars, build_vars, report_vars>>
    \/ HandlerReturn /\ UNCHANGED <<deferred_vars, thread_vars, build_vars, report_vars>>

Spec == Init /\ [][Next]_vars

----------------------------------------------------------------------------
(* Callbacks that emit the signal they are connected to, MaxNesting        *)
(* activations deep, and disconnect, unregister and register.              *)

Nesting ==
    [names |-> {AName(1)},
     funcs |-> {"f1"},
     priorities |-> {SS_PRIORITY_NORMAL},
     regs |-> {<<"NULL", SS_PRIORITY_NORMAL>>},
     caps |-> {},
     handler_ops |-> {"ss_emit", "ss_disconnect", "ss_signal_unregister",
                      "ss_signal_register_ex"}]

InitNesting ==
    /\ use_static \in BOOLEAN
    /\ env = Nesting
    /\ InitCommon
    /\ DeferredInit
    /\ ThreadsInit
    /\ BuildsInit
    /\ ReportInit

NextNesting ==
    \/ \E name \in env.names, d \in env.regs :
          Register(name, d)
              /\ UNCHANGED <<deferred_vars, thread_vars, build_vars, report_vars>>
    \/ \E name \in env.names :
          Unregister(name)
              /\ UNCHANGED <<deferred_vars, thread_vars, build_vars, report_vars>>
    \/ \E name \in env.names, func \in env.funcs, priority \in env.priorities :
          Connect(name, func, priority)
              /\ UNCHANGED <<deferred_vars, thread_vars, build_vars, report_vars>>
    \/ \E name \in env.names, func \in env.funcs :
          Disconnect(name, func)
              /\ UNCHANGED <<deferred_vars, thread_vars, build_vars, report_vars>>
    \/ \E name \in env.names :
          EmitUpTo(name, MaxNesting)
              /\ UNCHANGED <<deferred_vars, thread_vars, build_vars, report_vars>>
    \/ HandlerReturn
          /\ UNCHANGED <<deferred_vars, thread_vars, build_vars, report_vars>>

SpecNesting == InitNesting /\ [][NextNesting]_vars

----------------------------------------------------------------------------
(* Callbacks that connect further slots, at either priority, to the signal *)
(* being emitted, disconnect by handle, and unregister and register the    *)
(* signal; the main line also sets the per-signal cap.                     *)

Connecting ==
    [names |-> {AName(1)},
     funcs |-> {"f1"},
     priorities |-> {SS_PRIORITY_NORMAL, SS_PRIORITY_HIGH},
     regs |-> {<<"NULL", SS_PRIORITY_NORMAL>>},
     caps |-> {1, 2},
     handler_ops |-> {"ss_connect_ex", "ss_disconnect_handle",
                      "ss_signal_unregister", "ss_signal_register_ex"}]

InitConnecting ==
    /\ use_static \in BOOLEAN
    /\ env = Connecting
    /\ InitCommon
    /\ DeferredInit
    /\ ThreadsInit
    /\ BuildsInit
    /\ ReportInit

NextConnecting ==
    \/ \E name \in env.names, d \in env.regs :
          Register(name, d)
              /\ UNCHANGED <<deferred_vars, thread_vars, build_vars, report_vars>>
    \/ \E name \in env.names, func \in env.funcs, priority \in env.priorities :
          Connect(name, func, priority)
              /\ UNCHANGED <<deferred_vars, thread_vars, build_vars, report_vars>>
    \/ \E handle \in HandleInputs :
          DisconnectHandle(handle)
              /\ UNCHANGED <<deferred_vars, thread_vars, build_vars, report_vars>>
    \/ \E name \in env.names :
          Unregister(name)
              /\ UNCHANGED <<deferred_vars, thread_vars, build_vars, report_vars>>
    \/ \E max_slots \in env.caps :
          SetMaxSlots(max_slots)
              /\ UNCHANGED <<deferred_vars, thread_vars, build_vars, report_vars>>
    \/ \E name \in env.names :
          Emit(name)
              /\ UNCHANGED <<deferred_vars, thread_vars, build_vars, report_vars>>
    \/ HandlerReturn
          /\ UNCHANGED <<deferred_vars, thread_vars, build_vars, report_vars>>

SpecConnecting == InitConnecting /\ [][NextConnecting]_vars

----------------------------------------------------------------------------
(* The deferred queue, batches and interrupt capture.  The application     *)
(* (env.uses) either defers emissions and flushes them, with callbacks     *)
(* that defer further emissions, or fills a batch and captures from        *)
(* interrupt handlers.                                                     *)

(* The application's main line is between two API calls. *)
MainLine ==
    /\ Running
    /\ stack = <<>>
    /\ ~flush.active
    /\ g_context.allocated

(* The payloads the application passes next. *)
Payloads ==
    {NoData} \cup {[type |-> t, value |-> serial] : t \in env.types}

Crash ==
    /\ ub' = "crashed"
    /\ g_context' = InitContext
    /\ stack' = <<>>
    /\ reg_names' = {}
    /\ disconnected' = {}
    /\ unregistered' = {}
    /\ flush' = IdleFlush
    /\ heap_strings' = {}
    /\ serial' = MaxSerial + 1
    /\ batch' = NoBatch
    /\ UNCHANGED <<use_static, env, g_isr_queue>>

EmitDeferred(name, data) ==
    /\ Running
    /\ g_context.allocated
    /\ "deferred" \in env.uses
    /\ IF stack = <<>> THEN ~flush.active
       ELSE "ss_emit_deferred" \in env.handler_ops
    /\ serial <= MaxSerial
    /\ LET R == ss_emit_deferred(g_context, name, data)
       IN  /\ Return("ss_emit_deferred", R)
           /\ heap_strings' = heap_strings \cup ({R.dup} \ {0})
    /\ serial' = serial + 1
    /\ UNCHANGED <<reg_names, disconnected, unregistered, flush, g_isr_queue,
                   batch>>

(* ss_flush_deferred up to its loop: the count is snapshotted and reset. *)
FlushBegin ==
    /\ MainLine
    /\ "deferred" \in env.uses
    /\ g_context' = [g_context EXCEPT !.deferred_count = 0]
    /\ flush' = [active |-> TRUE, at |-> "emit", i |-> 0,
                 count |-> g_context.deferred_count,
                 result |-> "SS_OK",
                 from |-> serial,
                 snap |-> [j \in 1..g_context.deferred_count |->
                              g_context.deferred_queue[j - 1].data.value],
                 names |-> [j \in 1..g_context.deferred_count |->
                              g_context.deferred_queue[j - 1].signal_name],
                 log |-> <<>>]
    /\ UNCHANGED <<use_static, env, stack, ub, reg_names, disconnected, unregistered,
                   heap_strings, serial, g_isr_queue, batch>>

(* The loop body up to the first callback of ss_emit(entry->signal_name). *)
FlushEmit ==
    /\ flush.active /\ flush.at = "emit" /\ flush.i < flush.count
    /\ stack = <<>>
    /\ LET entry == g_context.deferred_queue[flush.i]
           err == ss_emit_ret(g_context, entry.signal_name)
       IN  /\ Emit(entry.signal_name)
           /\ flush' = [flush EXCEPT
                          !.at = "free",
                          !.log = Append(@, entry.data.value),
                          !.result = IF err # "SS_OK" THEN err ELSE @]
    /\ UNCHANGED <<heap_strings, serial, g_isr_queue, batch>>

(* After ss_emit returned: the entry's string, if it has one now, is freed. *)
FlushFree ==
    /\ flush.active /\ flush.at = "free"
    /\ Running
    /\ stack = <<>>
    /\ LET entry == g_context.deferred_queue[flush.i]
           twice == entry.has_string /\ entry.data.value \notin heap_strings
       IN  \E outcome \in IF twice THEN {"crashed", "stale"} ELSE {ub} :
               IF outcome = "crashed" THEN Crash
               ELSE /\ ub' = outcome
                    /\ heap_strings' = IF entry.has_string
                                       THEN heap_strings \ {entry.data.value}
                                       ELSE heap_strings
                    /\ flush' = [flush EXCEPT !.at = "emit", !.i = @ + 1]
                    /\ UNCHANGED <<use_static, env, g_context, stack,
                                   reg_names, disconnected, unregistered, serial,
                                   g_isr_queue, batch>>

FlushReturn_early ==
    /\ flush.active /\ flush.at = "emit"
    /\ flush' = IdleFlush
    /\ UNCHANGED <<registry_vars, heap_strings, serial, g_isr_queue, batch>>

FlushReturn ==
    /\ flush.active /\ flush.at = "emit" /\ flush.i = flush.count
    /\ flush' = IdleFlush
    /\ UNCHANGED <<registry_vars, heap_strings, serial, g_isr_queue, batch>>

IsrEmit(name, value) ==
    /\ "isr" \in env.uses
    /\ g_isr_queue' = ss_emit_from_isr(g_isr_queue, name, value).queue
    /\ UNCHANGED <<registry_vars, flush, heap_strings, serial, batch>>

BatchCreate ==
    /\ MainLine
    /\ "batch" \in env.uses
    /\ batch = NoBatch
    /\ batch' = ss_batch_create
    /\ UNCHANGED <<registry_vars, flush, heap_strings, serial, g_isr_queue>>

BatchAdd(name, data) ==
    /\ IF stack = <<>> THEN MainLine
       ELSE Running /\ "ss_batch_add" \in env.handler_ops
    /\ "batch" \in env.uses
    /\ batch # NoBatch
    /\ serial <= MaxSerial
    /\ LET R == ss_batch_add(batch, name, data)
       IN  /\ batch' = R.batch
           /\ heap_strings' = heap_strings \cup ({R.dup} \ {0})
    /\ serial' = serial + 1
    /\ UNCHANGED <<registry_vars, flush, g_isr_queue>>

BatchDestroy ==
    /\ MainLine
    /\ "batch" \in env.uses
    /\ batch # NoBatch
    /\ heap_strings' = heap_strings \ ss_batch_destroy(batch)
    /\ batch' = NoBatch
    /\ UNCHANGED <<registry_vars, flush, serial, g_isr_queue>>

Cleanup ==
    /\ MainLine
    /\ LET R == ss_cleanup(g_context)
       IN  /\ g_context' = R.ctx
           /\ heap_strings' = heap_strings \ R.freed
    /\ reg_names' = {}
    /\ UNCHANGED <<use_static, env, stack, ub, disconnected, unregistered, flush, serial,
                   g_isr_queue, batch>>

(* ss_init after ss_cleanup.  Until then every call returns at its check   *)
(* of g_context and changes nothing.                                       *)
InitAgain ==
    /\ Running
    /\ ~g_context.allocated
    /\ g_context' = ss_init(g_context)
    /\ UNCHANGED <<use_static, env, stack, ub, reg_names, disconnected, unregistered,
                   deferred_vars>>

(* Defers and flushes; callbacks defer.  The strangers are names it defers *)
(* and never registers.                                                    *)
Deferring ==
    [names |-> {NULL, AName(SS_MAX_SIGNAL_NAME_LENGTH - 1),
                AName(SS_MAX_SIGNAL_NAME_LENGTH)},
     funcs |-> {"f1"},
     priorities |-> {SS_PRIORITY_NORMAL},
     regs |-> {<<"NULL", SS_PRIORITY_NORMAL>>},
     caps |-> {},
     handler_ops |-> {"ss_emit_deferred"},
     types |-> {"SS_TYPE_INT", "SS_TYPE_STRING"},
     strangers |-> {AName(1)},
     uses |-> {"deferred"}]

(* Fills batches and captures in interrupt handlers. *)
Capturing ==
    [names |-> {NULL, AName(SS_MAX_SIGNAL_NAME_LENGTH - 1),
                AName(SS_MAX_SIGNAL_NAME_LENGTH)},
     funcs |-> {"f1"},
     priorities |-> {SS_PRIORITY_NORMAL},
     regs |-> {<<"NULL", SS_PRIORITY_NORMAL>>},
     caps |-> {},
     handler_ops |-> {},
     types |-> {"SS_TYPE_STRING"},
     strangers |-> {},
     uses |-> {"batch", "isr"}]

InitDeferred ==
    /\ use_static \in BOOLEAN
    /\ env \in {Deferring, Capturing}
    /\ InitCommon
    /\ DeferredInit
    /\ ThreadsInit
    /\ BuildsInit
    /\ ReportInit

NextDeferred ==
    \/ \E name \in env.names, d \in env.regs :
          /\ MainLine /\ Register(name, d)
          /\ UNCHANGED <<deferred_vars, thread_vars, build_vars, report_vars>>
    \/ \E name \in env.names, func \in env.funcs, priority \in env.priorities :
          /\ MainLine /\ Connect(name, func, priority)
          /\ UNCHANGED <<deferred_vars, thread_vars, build_vars, report_vars>>
    \/ \E name \in env.names \cup env.strangers, data \in Payloads :
          EmitDeferred(name, data) /\ UNCHANGED <<thread_vars, build_vars, report_vars>>
    \/ FlushBegin /\ UNCHANGED <<thread_vars, build_vars, report_vars>>
    \/ FlushEmit /\ UNCHANGED <<thread_vars, build_vars, report_vars>>
    \/ FlushFree /\ UNCHANGED <<thread_vars, build_vars, report_vars>>
    \/ FlushReturn /\ UNCHANGED <<thread_vars, build_vars, report_vars>>
    \/ HandlerReturn /\ UNCHANGED <<deferred_vars, thread_vars, build_vars, report_vars>>
    \/ \E name \in env.names, value \in {0, 1} :
          IsrEmit(name, value) /\ UNCHANGED <<thread_vars, build_vars, report_vars>>
    \/ BatchCreate /\ UNCHANGED <<thread_vars, build_vars, report_vars>>
    \/ \E name \in env.names, data \in Payloads :
          BatchAdd(name, data) /\ UNCHANGED <<thread_vars, build_vars, report_vars>>
    \/ BatchDestroy /\ UNCHANGED <<thread_vars, build_vars, report_vars>>
    \/ Cleanup /\ UNCHANGED <<thread_vars, build_vars, report_vars>>
    \/ InitAgain /\ UNCHANGED <<thread_vars, build_vars, report_vars>>

SpecDeferred == InitDeferred /\ [][NextDeferred]_vars

(* ss_flush_deferred and the handlers it invokes keep running: the loop   *)
(* of the flush and every handler take their next step.                    *)
FlushStep ==
    \/ FlushEmit /\ UNCHANGED <<thread_vars, build_vars, report_vars>>
    \/ FlushFree /\ UNCHANGED <<thread_vars, build_vars, report_vars>>
    \/ FlushReturn /\ UNCHANGED <<thread_vars, build_vars, report_vars>>
    \/ HandlerReturn
          /\ UNCHANGED <<deferred_vars, thread_vars, build_vars, report_vars>>

(* Defers to one registered signal and to one that is not registered. *)
Flushing ==
    [Deferring EXCEPT !.names = {AName(SS_MAX_SIGNAL_NAME_LENGTH - 1)},
                      !.types = {"SS_TYPE_STRING"}]

InitFlushing ==
    /\ use_static \in BOOLEAN
    /\ env = Flushing
    /\ InitCommon
    /\ DeferredInit
    /\ ThreadsInit
    /\ BuildsInit
    /\ ReportInit

NextFlushing ==
    \/ \E name \in env.names, d \in env.regs :
          /\ MainLine /\ Register(name, d)
          /\ UNCHANGED <<deferred_vars, thread_vars, build_vars, report_vars>>
    \/ \E name \in env.names, func \in env.funcs, priority \in env.priorities :
          /\ MainLine /\ Connect(name, func, priority)
          /\ UNCHANGED <<deferred_vars, thread_vars, build_vars, report_vars>>
    \/ \E name \in env.names \cup env.strangers, data \in Payloads :
          EmitDeferred(name, data) /\ UNCHANGED <<thread_vars, build_vars, report_vars>>
    \/ FlushBegin /\ UNCHANGED <<thread_vars, build_vars, report_vars>>
    \/ FlushStep

SpecFlushing == InitFlushing /\ [][NextFlushing]_vars /\ WF_vars(FlushStep)

----------------------------------------------------------------------------
(* The two builds side by side.  The application makes each call in the    *)
(* static build and then in the dynamic build, with callbacks that call    *)
(* nothing; g_context is the context of the build that use_static names    *)
(* and twin the context of the other one.                                  *)

(* ss_get_signal_list: one ss_signal_info_t per registered signal. *)
ss_get_signal_list(C) ==
    LET ord == SignalOrder(C)
        n == IF Len(ord) < C.signal_count THEN Len(ord) ELSE C.signal_count
    IN  [i \in 1..n |-> [name |-> C.sig[ord[i]].name,
                         description |-> C.sig[ord[i]].description,
                         slot_count |-> C.sig[ord[i]].slot_count,
                         priority |-> C.sig[ord[i]].priority]]

(* ss_emit with callbacks that return without calling the library: the     *)
(* slots not marked removed are invoked in list order.                     *)
ss_emit_quiet(C, name) ==
    IF ss_emit_ret(C, name) # "SS_OK"
    THEN [ctx |-> C, ret |-> ss_emit_ret(C, name), invoked |-> <<>>]
    ELSE LET s == find_signal(C, name)
             C1 == [C EXCEPT !.sig[s].emitting = @ + 1]
         IN  [ctx |-> emit_finish(C1, s), ret |-> "SS_OK",
              invoked |-> LiveHandles(C1, s)]

(* The calls the application makes. *)
BuildCalls ==
    LET call(op, name, desc, priority, func, handle) ==
            [op |-> op, name |-> name, desc |-> desc, priority |-> priority,
             func |-> func, handle |-> handle]
        named(name) ==
            {call("ss_signal_register_ex", name, d[1], d[2], "NULL", 0) :
                d \in env.regs}
            \cup {call("ss_connect_ex", name, "NULL", x[2], x[1], 0) :
                     x \in env.funcs \X env.priorities}
            \cup {call("ss_disconnect", name, "NULL", 0, f, 0) :
                     f \in env.funcs}
            \cup {call(op, name, "NULL", 0, "NULL", 0) :
                     op \in {"ss_signal_unregister", "ss_disconnect_all",
                             "ss_emit", "ss_signal_exists"}}
    IN  UNION {named(name) : name \in env.names}
        \cup {call("ss_disconnect_handle", NULL, "NULL", 0, "NULL", h) :
                 h \in HandleInputs}

(* What context C answers to a call: the context after it, the code it     *)
(* returns and the handles it invoked.                                     *)
Answer(C, c) ==
    LET plain(R) == [ctx |-> R.ctx, ret |-> R.ret, invoked |-> <<>>]
    IN  CASE c.op = "ss_signal_register_ex" ->
                 plain(ss_signal_register_ex(C, c.name, c.desc, c.priority,
                                             SignalCell(C)))
          [] c.op = "ss_signal_unregister" ->
                 plain(ss_signal_unregister(C, c.name))
          [] c.op = "ss_connect_ex" ->
                 plain(ss_connect_ex(C, c.name, c.func, c.priority,
                                     SlotCell(C)))
          [] c.op = "ss_disconnect" -> plain(ss_disconnect(C, c.name, c.func))
          [] c.op = "ss_disconnect_all" -> plain(ss_disconnect_all(C, c.name))
          [] c.op = "ss_disconnect_handle" ->
                 plain(ss_disconnect_handle(C, c.handle))
          [] c.op = "ss_signal_exists" ->
                 plain(Result(C, IF ss_signal_exists(C, c.name) = 1
                                 THEN "1" ELSE "0"))
          [] c.op = "ss_emit" -> ss_emit_quiet(C, c.name)

(* What the application sees of an answer: the code, the slots invoked     *)
(* and the report of ss_get_signal_list and ss_get_signal_count.           *)
Seen(A) ==
    [ret |-> A.ret, invoked |-> A.invoked,
     list |-> Range(ss_get_signal_list(A.ctx)),
     count |-> ss_get_signal_count(A.ctx)]

(* Neither build is at a storage limit for the call. *)
HasRoom(c) ==
    /\ c.op = "ss_signal_register_ex" =>
           SignalCell(g_context) # 0 /\ SignalCell(twin) # 0
    /\ c.op = "ss_connect_ex" =>
           /\ SlotCell(g_context) # 0 /\ SlotCell(twin) # 0
           /\ g_context.next_handle <= MaxHandle

BuildsCall(c) ==
    /\ use_static
    /\ pending.call = NoCall
    /\ HasRoom(c)
    /\ LET A == Answer(g_context, c)
       IN  /\ twin' = Normalise(A.ctx, stack)
           /\ pending' = [call |-> c, first |-> Seen(A), second |-> NoAnswer]
    /\ g_context' = twin
    /\ use_static' = FALSE
    /\ UNCHANGED <<env, stack, ub, reg_names, disconnected, unregistered>>

BuildsReplay ==
    /\ ~use_static
    /\ pending.call # NoCall
    /\ LET A == Answer(g_context, pending.call)
       IN  /\ twin' = Normalise(A.ctx, stack)
           /\ pending' = [pending EXCEPT !.call = NoCall, !.second = Seen(A)]
    /\ g_context' = twin
    /\ use_static' = TRUE
    /\ UNCHANGED <<env, stack, ub, reg_names, disconnected, unregistered>>

(* Registers with and without a description, connects two functions at     *)
(* two priorities. *)
BothBuilds ==
    [names |-> {NULL, AName(1), AName(SS_MAX_SIGNAL_NAME_LENGTH)},
     funcs |-> {"f1", "f2"},
     priorities |-> {SS_PRIORITY_NORMAL, SS_PRIORITY_HIGH},
     regs |-> {<<"NULL", SS_PRIORITY_NORMAL>>, <<"d", SS_PRIORITY_HIGH>>},
     caps |-> {},
     handler_ops |-> {}]

InitBuilds ==
    /\ use_static = TRUE
    /\ env = BothBuilds
    /\ InitCommon
    /\ DeferredInit
    /\ ThreadsInit
    /\ BuildsInit
    /\ ReportInit

NextBuilds ==
    \/ \E c \in BuildCalls :
          BuildsCall(c) /\ UNCHANGED <<deferred_vars, thread_vars, report_vars>>
    \/ BuildsReplay /\ UNCHANGED <<deferred_vars, thread_vars, report_vars>>

SpecBuilds == InitBuilds /\ [][NextBuilds]_vars

----------------------------------------------------------------------------
(* Two threads on one context.  Thread 1 emits (stack holds its            *)
(* activations) and its callbacks call back into the library; thread 2     *)
(* makes other calls.  A thread is at "body" between the lock and the      *)
(* unlock of its call, at "handler" while a callback of its ss_emit runs,  *)
(* at "count" in ss_emit_deferred between the write of the entry and       *)
(* deferred_count++.                                                       *)
(*                                                                         *)
(* SS_MUTEX_INIT makes a default pthread mutex or a Win32 critical         *)
(* section.  Locking a default mutex the thread already owns is undefined: *)
(* mutex.kind is what the platform makes of it, "normal" (the thread waits *)
(* for itself for ever), "errorcheck" (the lock fails with EDEADLK, which  *)
(* the macro drops, and the next unlock releases the mutex) or "recursive" *)
(* (critical section: counted).                                            *)

MutexKinds == {"normal", "errorcheck", "recursive"}

(* The calls each thread makes from its main line: thread 1 builds the     *)
(* registry and emits, thread 2 takes it down and looks.                   *)
ThreadOps ==
    [t \in Threads |->
        IF t = 1
        THEN {"ss_signal_register_ex", "ss_connect_ex", "ss_emit"}
        ELSE {"ss_signal_unregister", "ss_signal_exists", "ss_disconnect_all",
              "ss_disconnect", "ss_disconnect_handle"}]

(* The call returns at its parameter check, before SS_MUTEX_LOCK. *)
ReturnsUnlocked(c) ==
    CASE c.op = "ss_signal_register_ex" ->
             register_checks(InitContext, c.name) # "SS_OK"
      [] c.op \in {"ss_connect_ex", "ss_disconnect"} ->
             c.name = NULL \/ c.func = "NULL"
      [] c.op = "ss_disconnect_handle" -> c.handle = 0
      [] OTHER -> c.name = NULL

(* SS_MUTEX_UNLOCK by thread t. *)
Unlock(t) ==
    IF ~g_context.thread_safe \/ mutex.owner # t THEN mutex
    ELSE IF mutex.kind = "recursive" /\ mutex.count > 1
    THEN [mutex EXCEPT !.count = @ - 1]
    ELSE [mutex EXCEPT !.owner = 0, !.count = 0]

(* Where thread t is after a call of it returned: in the callback that     *)
(* made the call, or in no call.                                           *)
Back(t, stk) ==
    IF t = 1 /\ stk # <<>> THEN [Idle EXCEPT !.at = "handler"] ELSE Idle

(* SS_MUTEX_LOCK by thread t. *)
Lock(t) ==
    IF ~g_context.thread_safe THEN mutex
    ELSE IF mutex.owner # t THEN [mutex EXCEPT !.owner = t, !.count = 1]
    ELSE IF mutex.kind = "recursive" THEN [mutex EXCEPT !.count = @ + 1]
    ELSE mutex

(* Thread t calls c, from its main line or (thread 1) from a callback, and *)
(* gets as far as the parameter check that fails or past SS_MUTEX_LOCK.    *)
(* While another thread owns the mutex the call waits in SS_MUTEX_LOCK:    *)
(* the step is taken when the mutex is free.  A thread that owns a         *)
(* "normal" mutex and locks it again waits for ever ("deadlock").          *)
ThreadCall(t, c) ==
    /\ Running
    /\ "locked" \in env.uses
    /\ \/ pc[t].at = "idle" /\ c.op \in ThreadOps[t]
       \/ t = 1 /\ pc[t].at = "handler" /\ c.op \in env.handler_ops
    /\ c.op = "ss_emit" => Len(stack) < MaxNesting
    /\ c.op = "ss_connect_ex" => g_context.next_handle <= MaxHandle
    /\ IF ReturnsUnlocked(c)
       THEN UNCHANGED <<mutex, pc>>
       ELSE /\ g_context.thread_safe => mutex.owner \in {0, t}
            /\ mutex' = Lock(t)
            /\ pc' = [pc EXCEPT ![t] =
                        [at |-> IF /\ g_context.thread_safe
                                   /\ mutex.owner = t
                                   /\ mutex.kind = "normal"
                                THEN "deadlock" ELSE "body",
                         call |-> c, idx |-> 0]]
    /\ actor' = t
    /\ UNCHANGED <<registry_vars, deferred_ok>>

(* The locked part of a call other than ss_emit, its SS_MUTEX_UNLOCK and   *)
(* its return.                                                             *)
ThreadBody(t) ==
    /\ Running
    /\ pc[t].at = "body"
    /\ pc[t].call.op # "ss_emit"
    /\ LET R == Answer(g_context, pc[t].call)
       IN  /\ Return(pc[t].call.op, R)
           /\ reg_names' =
                 IF R.ret # "SS_OK" THEN reg_names
                 ELSE IF pc[t].call.op = "ss_signal_register_ex"
                 THEN reg_names \cup {pc[t].call.name}
                 ELSE IF pc[t].call.op = "ss_signal_unregister"
                 THEN reg_names \ {pc[t].call.name}
                 ELSE reg_names
    /\ mutex' = Unlock(t)
    /\ pc' = [pc EXCEPT ![t] = Back(t, stack)]
    /\ actor' = t
    /\ UNCHANGED <<disconnected, unregistered, deferred_ok>>

(* After a step of the walk of thread 1: a callback runs, or ss_emit has   *)
(* unlocked and returned.                                                  *)
AfterWalk(depth) ==
    /\ actor' = 1
    /\ UNCHANGED deferred_ok
    /\ IF ub' \in {"crashed", "hang"} \/ Len(stack') < depth
       THEN /\ mutex' = Unlock(1)
            /\ pc' = [pc EXCEPT ![1] = Back(1, stack')]
       ELSE /\ mutex' = mutex
            /\ pc' = [pc EXCEPT ![1] = [Idle EXCEPT !.at = "handler"]]

(* The locked part of ss_emit up to its first callback, or to its return   *)
(* when it calls none.                                                     *)
ThreadEmit ==
    /\ Running
    /\ pc[1].at = "body"
    /\ pc[1].call.op = "ss_emit"
    /\ LET name == pc[1].call.name
           s == find_signal(g_context, name)
           below == AddCall(stack, "ss_emit")
       IN  IF s = 0
           THEN /\ stack' = below
                /\ UNCHANGED <<use_static, env, g_context, ub, reg_names,
                               disconnected, unregistered>>
           ELSE LET C == [g_context EXCEPT !.sig[s].emitting = @ + 1]
                    f == [sig |-> s, slot |-> 0, next_slot |-> 0,
                          name |-> name, init |-> ListHandles(C, s),
                          live |-> LiveHandles(C, s),
                          log |-> <<>>, calls |-> "none"]
                IN  emit_walk(C, f, C.sig[s].slots, below)
    /\ AfterWalk(Len(stack) + 1)

(* The running callback of thread 1 returns and ss_emit goes on. *)
ThreadHandlerReturn ==
    /\ Running
    /\ pc[1].at = "handler"
    /\ stack # <<>>
    /\ LET f == stack[Len(stack)]
       IN  emit_walk(g_context, f, f.next_slot, SubSeq(stack, 1, Len(stack) - 1))
    /\ AfterWalk(Len(stack))

(* ss_set_max_slots_per_signal: no SS_MUTEX_LOCK. *)
ThreadSetMaxSlots(t, max_slots) ==
    /\ Running
    /\ "unlocked" \in env.uses
    /\ pc[t].at = "idle"
    /\ g_context' = ss_set_max_slots_per_signal(g_context, max_slots)
    /\ actor' = t
    /\ UNCHANGED <<use_static, env, stack, ub, reg_names, disconnected,
                   unregistered, mutex, pc, deferred_ok>>

(* ss_emit_deferred up to deferred_count++: the checks, the read of        *)
(* deferred_count and the write of the entry at that index.  No            *)
(* SS_MUTEX_LOCK.                                                          *)
ThreadDeferWrite(t, name) ==
    /\ Running
    /\ "unlocked" \in env.uses
    /\ pc[t].at = "idle"
    /\ LET R == ss_emit_deferred(g_context, name, NoData)
       IN  IF R.ret # "SS_OK"
           THEN UNCHANGED <<g_context, pc>>
           ELSE /\ g_context' =
                      [R.ctx EXCEPT !.deferred_count = g_context.deferred_count]
                /\ pc' = [pc EXCEPT ![t] = [at |-> "count", call |-> NoCall,
                                            idx |-> g_context.deferred_count]]
    /\ actor' = t
    /\ UNCHANGED <<use_static, env, stack, ub, reg_names, disconnected,
                   unregistered, mutex, deferred_ok>>

(* deferred_count++ and return SS_OK.  The increment is a read and a write *)
(* that another thread's may fall between: the count becomes one more than *)
(* it is now or one more than it was when this call read it.               *)
ThreadDeferCount(t) ==
    /\ Running
    /\ pc[t].at = "count"
    /\ \E n \in {pc[t].idx + 1, g_context.deferred_count + 1} :
          g_context' = [g_context EXCEPT !.deferred_count = n]
    /\ deferred_ok' = deferred_ok + 1
    /\ pc' = [pc EXCEPT ![t] = Idle]
    /\ actor' = t
    /\ UNCHANGED <<use_static, env, stack, ub, reg_names, disconnected,
                   unregistered, mutex>>

(* The calls the threads make. *)
ThreadCalls ==
    LET call(op, name, func, handle) ==
            [NoCall EXCEPT !.op = op, !.name = name, !.func = func,
                           !.handle = handle,
                           !.priority = SS_PRIORITY_NORMAL]
    IN  {call(op, name, "NULL", 0) :
            op \in {"ss_signal_register_ex", "ss_signal_unregister",
                    "ss_signal_exists", "ss_disconnect_all", "ss_emit"},
            name \in env.names}
        \cup {call(op, name, func, 0) :
                 op \in {"ss_connect_ex", "ss_disconnect"},
                 name \in env.names, func \in env.funcs}
        \cup {call("ss_disconnect_handle", NULL, "NULL", h) :
                 h \in 0..1}

(* One signal name; callbacks emit, connect and disconnect.  The threads   *)
(* make the calls that lock (uses "locked"), or the calls that do not,     *)
(* ss_set_max_slots_per_signal and ss_emit_deferred ("unlocked").          *)
Threaded(uses) ==
    [names |-> {NULL, AName(1)},
     uses |-> uses,
     funcs |-> {"f1"},
     priorities |-> {SS_PRIORITY_NORMAL},
     regs |-> {<<"NULL", SS_PRIORITY_NORMAL>>},
     caps |-> {1},
     handler_ops |-> {"ss_emit", "ss_connect_ex", "ss_disconnect_handle",
                      "ss_disconnect_all", "ss_disconnect"}]

(* After ss_init and ss_set_thread_safe(0 or 1), on either build and any   *)
(* platform.                                                               *)
InitThreads ==
    /\ use_static \in BOOLEAN
    /\ env \in {Threaded({"locked"}), Threaded({"unlocked"})}
    /\ \E enabled \in BOOLEAN :
          /\ g_context = [InitContext EXCEPT !.thread_safe = enabled]
          /\ mutex \in {[kind |-> k, owner |-> 0, count |-> 0] :
                          k \in IF enabled THEN MutexKinds ELSE {"none"}}
    /\ stack = <<>>
    /\ ub = "none"
    /\ reg_names = {}
    /\ disconnected = {}
    /\ unregistered = {}
    /\ pc = [t \in Threads |-> Idle]
    /\ actor = 0
    /\ deferred_ok = 0
    /\ DeferredInit
    /\ BuildsInit
    /\ ReportInit

NextThreads ==
    \/ \E t \in Threads, c \in ThreadCalls :
          ThreadCall(t, c) /\ UNCHANGED <<deferred_vars, build_vars, report_vars>>
    \/ \E t \in Threads :
          ThreadBody(t) /\ UNCHANGED <<deferred_vars, build_vars, report_vars>>
    \/ ThreadEmit /\ UNCHANGED <<deferred_vars, build_vars, report_vars>>
    \/ ThreadHandlerReturn /\ UNCHANGED <<deferred_vars, build_vars, report_vars>>
    \/ \E t \in Threads, max_slots \in env.caps :
          ThreadSetMaxSlots(t, max_slots)
              /\ UNCHANGED <<deferred_vars, build_vars, report_vars>>
    \/ \E t \in Threads, name \in env.names :
          ThreadDeferWrite(t, name) /\ UNCHANGED <<deferred_vars, build_vars, report_vars>>
    \/ \E t \in Threads :
          ThreadDeferCount(t) /\ UNCHANGED <<deferred_vars, build_vars, report_vars>>

SpecThreads == InitThreads /\ [][NextThreads]_vars


----------------------------------------------------------------------------
(* ss_set_thread_safe while calls are in progress.  Thread 1 builds the    *)
(* registry and emits, its callbacks switch thread safety on and off;      *)
(* thread 2 makes its calls and switches too.                              *)

(* ss_set_thread_safe(enabled): SS_MUTEX_INIT when it switches on,         *)
(* SS_MUTEX_DESTROY when it switches off, no SS_MUTEX_LOCK.  Destroying a  *)
(* mutex that is locked is undefined: it fails (EBUSY, the mutex stays     *)
(* locked) or the mutex is gone, owner and all.                            *)
ThreadSetThreadSafe(t, enabled) ==
    /\ Running
    /\ \/ pc[t].at = "idle"
       \/ t = 1 /\ pc[t].at = "handler"
            /\ "ss_set_thread_safe" \in env.handler_ops
    /\ g_context' = [g_context EXCEPT !.thread_safe = enabled]
    /\ mutex' \in
          IF enabled /\ ~g_context.thread_safe
          THEN {[mutex EXCEPT !.owner = 0, !.count = 0]}
          ELSE IF ~enabled /\ g_context.thread_safe
          THEN {mutex, [mutex EXCEPT !.owner = 0, !.count = 0]}
          ELSE {mutex}
    /\ actor' = t
    /\ UNCHANGED <<use_static, env, stack, ub, reg_names, disconnected,
                   unregistered, pc, deferred_ok>>

Toggling ==
    [names |-> {AName(1)},
     uses |-> {"locked"},
     funcs |-> {"f1"},
     priorities |-> {SS_PRIORITY_NORMAL},
     regs |-> {<<"NULL", SS_PRIORITY_NORMAL>>},
     caps |-> {},
     handler_ops |-> {"ss_set_thread_safe"}]

(* After ss_init and ss_set_thread_safe(0 or 1), on any platform. *)
InitToggle ==
    /\ use_static \in BOOLEAN
    /\ env = Toggling
    /\ \E enabled \in BOOLEAN :
          g_context = [InitContext EXCEPT !.thread_safe = enabled]
    /\ mutex \in {[kind |-> k, owner |-> 0, count |-> 0] : k \in MutexKinds}
    /\ stack = <<>>
    /\ ub = "none"
    /\ reg_names = {}
    /\ disconnected = {}
    /\ unregistered = {}
    /\ pc = [t \in Threads |-> Idle]
    /\ actor = 0
    /\ deferred_ok = 0
    /\ DeferredInit
    /\ BuildsInit
    /\ ReportInit

NextToggle ==
    \/ \E t \in Threads, c \in ThreadCalls :
          ThreadCall(t, c) /\ UNCHANGED <<deferred_vars, build_vars, report_vars>>
    \/ \E t \in Threads :
          ThreadBody(t) /\ UNCHANGED <<deferred_vars, build_vars, report_vars>>
    \/ ThreadEmit /\ UNCHANGED <<deferred_vars, build_vars, report_vars>>
    \/ ThreadHandlerReturn /\ UNCHANGED <<deferred_vars, build_vars, report_vars>>
    \/ \E t \in Threads, enabled \in BOOLEAN :
          ThreadSetThreadSafe(t, enabled)
              /\ UNCHANGED <<deferred_vars, build_vars, report_vars>>

SpecToggle == InitToggle /\ [][NextToggle]_vars

----------------------------------------------------------------------------
(* The error handler and the namespaced emit.  One thread makes the calls; *)
(* callbacks and the error handler return without calling the library.     *)

(* The name ss_emit_namespaced builds in buf: ns, "::" and signal_name. *)
Compose(ns, name) == ns \o <<":", ":">> \o name

namespaced_overflows_one_short(ns, name) ==
    Len(ns) + 2 + Len(name) + 1 >= SS_MAX_SIGNAL_NAME_LENGTH

(* The length check of ss_emit_namespaced: buf has no room for ns, "::",   *)
(* signal_name and the terminator.                                         *)
namespaced_overflows(ns, name) ==
    Len(ns) + 2 + Len(name) + 1 > SS_MAX_SIGNAL_NAME_LENGTH

(* ss_emit_namespaced; the emit itself with callbacks that call nothing. *)
ss_emit_namespaced(C, ns, name) ==
    IF ns = NULL \/ name = NULL
    THEN [ctx |-> C, ret |-> "SS_ERR_NULL_PARAM", invoked |-> <<>>]
    ELSE IF namespaced_overflows(ns, name)
    THEN [ctx |-> C, ret |-> "SS_ERR_WOULD_OVERFLOW", invoked |-> <<>>]
    ELSE ss_emit_quiet(C, Compose(ns, name))

(* report_error: the codes the installed handler is called with. *)
report_error(C, handler, error) ==
    IF C.allocated /\ handler THEN <<error>> ELSE <<>>

(* The report_error calls of call c on context C: those of the parameter   *)
(* checks, lookups and limit checks that have one.                         *)
Reports(C, handler, c) ==
    LET told(error) == IF error = "SS_OK" THEN <<>>
                       ELSE report_error(C, handler, error)
    IN  CASE c.op = "ss_signal_register_ex" -> told(register_checks(C, c.name))
          [] c.op = "ss_connect_ex" ->
                 told(IF c.name = NULL \/ c.func = "NULL"
                      THEN "SS_ERR_NULL_PARAM"
                      ELSE IF find_signal(C, c.name) = 0
                      THEN "SS_ERR_NOT_FOUND"
                      ELSE IF slots_at_max(C, find_signal(C, c.name))
                      THEN "SS_ERR_MAX_SLOTS"
                      ELSE "SS_OK")
          [] c.op = "ss_emit" -> told(ss_emit_ret(C, c.name))
          [] c.op = "ss_emit_deferred" ->
                 told(IF c.name = NULL THEN "SS_ERR_NULL_PARAM"
                      ELSE IF C.deferred_count >= SS_DEFERRED_QUEUE_SIZE
                      THEN "SS_ERR_WOULD_OVERFLOW"
                      ELSE "SS_OK")
          [] OTHER -> <<>>

(* The report_error calls of ss_emit_namespaced: its own and ss_emit's. *)
ReportsNamespaced(C, handler, ns, name) ==
    LET R == ss_emit_namespaced(C, ns, name)
    IN  IF R.ret = "SS_OK" THEN <<>> ELSE report_error(C, handler, R.ret)

(* ss_set_error_handler. *)
SetErrorHandler(handler) ==
    /\ report' = [NoReport EXCEPT !.handler = handler]
    /\ UNCHANGED registry_vars

(* The calls the application makes: those of the registry, or             *)
(* ss_emit_deferred.                                                       *)
ErrorCalls ==
    IF "registry" \in env.uses THEN BuildCalls
    ELSE {[NoCall EXCEPT !.op = "ss_emit_deferred", !.name = name] :
             name \in env.names}

(* The application makes call c and sees what it returns and what the      *)
(* error handler was told.                                                 *)
ErrorCall(c) ==
    /\ c.op = "ss_connect_ex" => g_context.next_handle <= MaxHandle
    /\ LET R == IF c.op = "ss_emit_deferred"
                THEN ss_emit_deferred(g_context, c.name, NoData)
                ELSE Answer(g_context, c)
       IN  /\ g_context' = Normalise(R.ctx, stack)
           /\ report' = [report EXCEPT
                           !.op = c.op,
                           !.ret = R.ret,
                           !.codes = Reports(g_context, report.handler, c)]
    /\ UNCHANGED <<use_static, env, stack, ub, reg_names, disconnected,
                   unregistered>>

(* ss_emit_namespaced(ns, name, data). *)
ErrorNamespaced(ns, name) ==
    /\ "registry" \in env.uses
    /\ LET R == ss_emit_namespaced(g_context, ns, name)
       IN  /\ g_context' = Normalise(R.ctx, stack)
           /\ report' = [report EXCEPT
                           !.op = "ss_emit_namespaced",
                           !.ret = R.ret,
                           !.codes = ReportsNamespaced(g_context,
                                         report.handler, ns, name)]
    /\ UNCHANGED <<use_static, env, stack, ub, reg_names, disconnected,
                   unregistered>>

(* Two registrable names, one of them "::", and a name that is too long;   *)
(* namespaces and names within a namespace NULL, "" and "a".  The application works on the registry or  *)
(* defers emissions.                                                       *)
Reporting(uses) ==
    [names |-> {NULL, AName(1), <<":", ":">>,
                AName(SS_MAX_SIGNAL_NAME_LENGTH)},
     uses |-> uses,
     namespaces |-> {NULL, <<>>, AName(1)},
     locals |-> {NULL, <<>>, AName(1)},
     funcs |-> {"NULL", "f1"},
     priorities |-> {SS_PRIORITY_NORMAL},
     regs |-> {<<"NULL", SS_PRIORITY_NORMAL>>},
     caps |-> {1},
     handler_ops |-> {}]

InitErrors ==
    /\ use_static \in BOOLEAN
    /\ env \in {Reporting({"registry"}), Reporting({"deferred"})}
    /\ g_context = ss_set_max_slots_per_signal(InitContext, 1)
    /\ stack = <<>>
    /\ ub = "none"
    /\ reg_names = {}
    /\ disconnected = {}
    /\ unregistered = {}
    /\ DeferredInit
    /\ ThreadsInit
    /\ BuildsInit
    /\ ReportInit

NextErrors ==
    \/ \E handler \in BOOLEAN :
          SetErrorHandler(handler)
              /\ UNCHANGED <<deferred_vars, thread_vars, build_vars>>
    \/ \E c \in ErrorCalls :
          ErrorCall(c) /\ UNCHANGED <<deferred_vars, thread_vars, build_vars>>
    \/ \E ns \in env.namespaces, name \in env.locals :
          ErrorNamespaced(ns, name)
              /\ UNCHANGED <<deferred_vars, thread_vars, build_vars>>

SpecErrors == InitErrors /\ [][NextErrors]_vars

----------------------------------------------------------------------------
(* Interrupt capture.  Thread 1 registers and connects under the registry  *)
(* lock; an interrupt handler (context 2) calls ss_emit_from_isr at any    *)
(* point of it, the lock held or not.  A capture is a sequence of stores:  *)
(* the characters of the name, its terminator, the value, the pending      *)
(* flag.  Captures do not preempt one another.                             *)

IsrIdle == [at |-> "idle", call |-> NoCall, idx |-> 0, copied |-> 0]

IsrFrame_counting ==
    /\ g_context' = [g_context EXCEPT !.next_handle = @ + 1]
    /\ UNCHANGED <<use_static, env, stack, ub, reg_names, disconnected,
                   unregistered, mutex, deferred_ok, flush, heap_strings,
                   serial, batch, build_vars>>

(* What no step of ss_emit_from_isr touches: the context, the mutex (there *)
(* is no SS_MUTEX_LOCK in it) and everything but the capture queue.        *)
IsrFrame ==
    UNCHANGED <<registry_vars, mutex, deferred_ok, flush, heap_strings,
                serial, batch, build_vars>>

IsrReturn(ret) == [NoReport EXCEPT !.op = "ss_emit_from_isr", !.ret = ret]

(* ss_emit_from_isr up to the first store: the check of signal_name and    *)
(* the search for a slot that is not pending.                              *)
IsrEnter(name, value) ==
    /\ pc[2].at = "idle"
    /\ LET free == {i \in DOMAIN g_isr_queue : ~g_isr_queue[i].pending}
       IN  IF name = NULL
           THEN report' = IsrReturn("SS_ERR_NULL_PARAM") /\ UNCHANGED pc
           ELSE IF free = {}
           THEN report' = IsrReturn("SS_ERR_WOULD_OVERFLOW") /\ UNCHANGED pc
           ELSE /\ report' = IsrReturn("none")
                /\ pc' = [pc EXCEPT ![2] =
                            [at |-> "name",
                             call |-> [NoCall EXCEPT !.name = name,
                                                     !.handle = value],
                             idx |-> MinOf(free), copied |-> 0]]
    /\ actor' = 2
    /\ UNCHANGED g_isr_queue
    /\ IsrFrame

(* ss_strscpy into the slot: the next character, or the terminator. *)
IsrCopy ==
    /\ pc[2].at = "name"
    /\ LET i == pc[2].idx
           k == pc[2].copied
           dst == ss_strscpy(pc[2].call.name, SS_MAX_SIGNAL_NAME_LENGTH).dst
           old == g_isr_queue[i].signal_name
       IN  IF k < Len(dst)
           THEN /\ g_isr_queue' =
                      [g_isr_queue EXCEPT ![i].signal_name =
                          SubSeq(dst, 1, k + 1) \o SubSeq(old, k + 2, Len(old))]
                /\ pc' = [pc EXCEPT ![2].copied = k + 1]
           ELSE /\ g_isr_queue' = [g_isr_queue EXCEPT ![i].signal_name = dst]
                /\ pc' = [pc EXCEPT ![2].at = "value"]
    /\ actor' = 2
    /\ UNCHANGED report
    /\ IsrFrame

IsrValue_pending_first ==
    /\ pc[2].at = "value"
    /\ g_isr_queue' = [g_isr_queue EXCEPT ![pc[2].idx].pending = TRUE]
    /\ pc' = [pc EXCEPT ![2].at = "pending"]
    /\ actor' = 2
    /\ UNCHANGED report
    /\ IsrFrame

(* g_isr_queue[i].value = value. *)
IsrValue ==
    /\ pc[2].at = "value"
    /\ g_isr_queue' = [g_isr_queue EXCEPT ![pc[2].idx].value = pc[2].call.handle]
    /\ pc' = [pc EXCEPT ![2].at = "pending"]
    /\ actor' = 2
    /\ UNCHANGED report
    /\ IsrFrame

(* After SS_WRITE_BARRIER: g_isr_queue[i].pending = 1 and return SS_OK. *)
IsrPending ==
    /\ pc[2].at = "pending"
    /\ g_isr_queue' = [g_isr_queue EXCEPT ![pc[2].idx].pending = TRUE]
    /\ pc' = [pc EXCEPT ![2] = IsrIdle]
    /\ report' = IsrReturn("SS_OK")
    /\ actor' = 2
    /\ IsrFrame

(* The steps of the interrupt handler. *)
IsrNext ==
    \/ \E name \in env.names, value \in env.values : IsrEnter(name, value)
    \/ IsrCopy
    \/ IsrValue
    \/ IsrPending

(* The registry calls of thread 1. *)
IsrThreadCalls ==
    {c \in ThreadCalls :
        c.op \in {"ss_signal_register_ex", "ss_connect_ex"}}

Interrupted ==
    [names |-> {NULL, AName(1), AName(SS_MAX_SIGNAL_NAME_LENGTH)},
     uses |-> {"locked"},
     funcs |-> {"f1"},
     priorities |-> {SS_PRIORITY_NORMAL},
     regs |-> {<<"NULL", SS_PRIORITY_NORMAL>>},
     caps |-> {},
     values |-> {1, 2},
     handler_ops |-> {}]

InitIsr ==
    /\ use_static \in BOOLEAN
    /\ env = Interrupted
    /\ \E enabled \in BOOLEAN :
          /\ g_context = [InitContext EXCEPT !.thread_safe = enabled]
          /\ mutex = [kind |-> IF enabled THEN "normal" ELSE "none",
                      owner |-> 0, count |-> 0]
    /\ stack = <<>>
    /\ ub = "none"
    /\ reg_names = {}
    /\ disconnected = {}
    /\ unregistered = {}
    /\ pc = [t \in Threads |-> IF t = 1 THEN Idle ELSE IsrIdle]
    /\ actor = 0
    /\ deferred_ok = 0
    /\ DeferredInit
    /\ BuildsInit
    /\ ReportInit

NextIsr ==
    \/ \E c \in IsrThreadCalls :
          ThreadCall(1, c) /\ UNCHANGED <<deferred_vars, build_vars, report_vars>>
    \/ ThreadBody(1) /\ UNCHANGED <<deferred_vars, build_vars, report_vars>>
    \/ \E name \in env.names, value \in env.values : IsrEnter(name, value)
    \/ IsrCopy
    \/ IsrValue
    \/ IsrPending

SpecIsr == InitIsr /\ [][NextIsr]_vars

----------------------------------------------------------------------------
(* ss_batch_emit.  The application fills one batch and the deferred queue, *)
(* emits the batch and flushes the queue; its callbacks add to the batch.  *)
(* pc[1] is the position of the ss_batch_emit call: i its loop *)
(* index, result its local, log the entries it has handed to ss_emit,      *)
(* from the number of the next payload when it was called.                 *)

BatchEmitIdle ==
    [at |-> "idle", i |-> 0, result |-> "SS_OK", log |-> <<>>, from |-> 0]

(* The main line is in neither ss_flush_deferred nor ss_batch_emit. *)
BatchMainLine == MainLine /\ pc[1].at = "idle"

BatchEmitBegin ==
    /\ BatchMainLine
    /\ batch # NoBatch
    /\ pc' = [pc EXCEPT ![1] = [BatchEmitIdle EXCEPT !.at = "loop",
                                                     !.from = serial]]
    /\ UNCHANGED <<registry_vars, deferred_vars>>

(* The loop body up to the first callback of ss_emit(entry->signal_name);  *)
(* the loop condition reads batch->count.                                  *)
BatchEmitEntry ==
    /\ pc[1].at = "loop"
    /\ stack = <<>>
    /\ pc[1].i < batch.count
    /\ LET entry == batch.entries[pc[1].i]
           err == ss_emit_ret(g_context, entry.signal_name)
       IN  /\ Emit(entry.signal_name)
           /\ pc' = [pc EXCEPT
                        ![1].at = "free",
                        ![1].log = Append(@, <<entry.signal_name,
                                               entry.data.value>>),
                        ![1].result = IF err # "SS_OK" THEN err ELSE @]
    /\ UNCHANGED deferred_vars

(* After ss_emit returned: the entry's string is freed and has_string      *)
(* cleared.                                                                *)
BatchEmitFree ==
    /\ pc[1].at = "free"
    /\ Running
    /\ stack = <<>>
    /\ LET i == pc[1].i
           entry == batch.entries[i]
       IN  IF entry.has_string
           THEN /\ heap_strings' = heap_strings \ {entry.data.value}
                /\ batch' = [batch EXCEPT !.entries[i].has_string = FALSE]
           ELSE UNCHANGED <<heap_strings, batch>>
    /\ pc' = [pc EXCEPT ![1].at = "loop", ![1].i = @ + 1]
    /\ UNCHANGED <<registry_vars, flush, serial, g_isr_queue>>

BatchEmitReturn_keeps ==
    /\ pc[1].at = "loop"
    /\ stack = <<>>
    /\ pc[1].i >= batch.count
    /\ pc' = [pc EXCEPT ![1] = BatchEmitIdle]
    /\ UNCHANGED <<registry_vars, deferred_vars>>

(* batch->count = 0 and return result. *)
BatchEmitReturn ==
    /\ pc[1].at = "loop"
    /\ stack = <<>>
    /\ pc[1].i >= batch.count
    /\ batch' = [batch EXCEPT !.count = 0]
    /\ pc' = [pc EXCEPT ![1] = BatchEmitIdle]
    /\ UNCHANGED <<registry_vars, flush, heap_strings, serial, g_isr_queue>>

(* Registers one signal; emits it and one that is not registered. *)
Batching ==
    [names |-> {AName(SS_MAX_SIGNAL_NAME_LENGTH - 1)},
     funcs |-> {"f1"},
     priorities |-> {SS_PRIORITY_NORMAL},
     regs |-> {<<"NULL", SS_PRIORITY_NORMAL>>},
     caps |-> {},
     handler_ops |-> {"ss_batch_add"},
     types |-> {"SS_TYPE_STRING"},
     strangers |-> {AName(1)},
     uses |-> {"batch", "deferred"}]

InitBatch ==
    /\ use_static \in BOOLEAN
    /\ env = Batching
    /\ InitCommon
    /\ DeferredInit
    /\ mutex = [kind |-> "none", owner |-> 0, count |-> 0]
    /\ pc = [t \in Threads |-> BatchEmitIdle]
    /\ actor = 0
    /\ deferred_ok = 0
    /\ BuildsInit
    /\ ReportInit

NextBatch ==
    \/ \E name \in env.names, d \in env.regs :
          /\ BatchMainLine /\ Register(name, d)
          /\ UNCHANGED <<deferred_vars, thread_vars, build_vars, report_vars>>
    \/ \E name \in env.names, func \in env.funcs, priority \in env.priorities :
          /\ BatchMainLine /\ Connect(name, func, priority)
          /\ UNCHANGED <<deferred_vars, thread_vars, build_vars, report_vars>>
    \/ \E name \in env.names, data \in Payloads :
          /\ BatchMainLine /\ EmitDeferred(name, data)
          /\ UNCHANGED <<thread_vars, build_vars, report_vars>>
    \/ /\ BatchMainLine /\ FlushBegin
       /\ UNCHANGED <<thread_vars, build_vars, report_vars>>
    \/ FlushStep
    \/ /\ BatchMainLine /\ BatchCreate
       /\ UNCHANGED <<thread_vars, build_vars, report_vars>>
    \/ \E name \in env.names \cup env.strangers, data \in Payloads :
          /\ stack = <<>> => pc[1].at = "idle"
          /\ BatchAdd(name, data)
          /\ UNCHANGED <<thread_vars, build_vars, report_vars>>
    \/ /\ BatchMainLine /\ BatchDestroy
       /\ UNCHANGED <<thread_vars, build_vars, report_vars>>
    \/ BatchEmitBegin /\ UNCHANGED <<mutex, actor, deferred_ok, build_vars, report_vars>>
    \/ BatchEmitEntry /\ UNCHANGED <<mutex, actor, deferred_ok, build_vars, report_vars>>
    \/ BatchEmitFree /\ UNCHANGED <<mutex, actor, deferred_ok, build_vars, report_vars>>
    \/ BatchEmitReturn /\ UNCHANGED <<mutex, actor, deferred_ok, build_vars, report_vars>>

SpecBatch == InitBatch /\ [][NextBatch]_vars

----------------------------------------------------------------------------
(* Nested interrupts.  Two interrupt handlers each call ss_emit_from_isr   *)
(* once; handler 2 has the higher priority: it starts at any point of      *)
(* handler 1's capture and runs to its return before handler 1 goes on.    *)
(* ret is the code the handler's call returned.                            *)

CaptureIdle ==
    [at |-> "idle", call |-> NoCall, idx |-> 0, copied |-> 0, ret |-> "none"]

(* Handler t runs: handler 1 only while handler 2 is not inside its call. *)
Runs(t) == t = 1 => pc[2].at \in {"idle", "done"}

CaptureFrame ==
    UNCHANGED <<registry_vars, mutex, deferred_ok, flush, heap_strings,
                serial, batch, build_vars, report_vars>>

(* The check of signal_name and the search for a slot that is not pending. *)
CaptureEnter(t, name, value) ==
    /\ Runs(t)
    /\ pc[t].at = "idle"
    /\ LET free == {i \in DOMAIN g_isr_queue : ~g_isr_queue[i].pending}
           c == [NoCall EXCEPT !.name = name, !.handle = value]
       IN  pc' = [pc EXCEPT ![t] =
                    IF name = NULL
                    THEN [CaptureIdle EXCEPT !.at = "done", !.call = c,
                                             !.ret = "SS_ERR_NULL_PARAM"]
                    ELSE IF free = {}
                    THEN [CaptureIdle EXCEPT !.at = "done", !.call = c,
                                             !.ret = "SS_ERR_WOULD_OVERFLOW"]
                    ELSE [CaptureIdle EXCEPT !.at = "name", !.call = c,
                                             !.idx = MinOf(free)]]
    /\ actor' = t
    /\ UNCHANGED g_isr_queue
    /\ CaptureFrame

(* ss_strscpy into the slot: the next character, or the terminator. *)
CaptureCopy(t) ==
    /\ Runs(t)
    /\ pc[t].at = "name"
    /\ LET i == pc[t].idx
           k == pc[t].copied
           dst == ss_strscpy(pc[t].call.name, SS_MAX_SIGNAL_NAME_LENGTH).dst
           old == g_isr_queue[i].signal_name
       IN  IF k < Len(dst)
           THEN /\ g_isr_queue' =
                      [g_isr_queue EXCEPT ![i].signal_name =
                          SubSeq(dst, 1, k + 1) \o SubSeq(old, k + 2, Len(old))]
                /\ pc' = [pc EXCEPT ![t].copied = k + 1]
           ELSE /\ g_isr_queue' = [g_isr_queue EXCEPT ![i].signal_name = dst]
                /\ pc' = [pc EXCEPT ![t].at = "value"]
    /\ actor' = t
    /\ CaptureFrame

(* g_isr_queue[i].value = value. *)
CaptureValue(t) ==
    /\ Runs(t)
    /\ pc[t].at = "value"
    /\ g_isr_queue' = [g_isr_queue EXCEPT ![pc[t].idx].value = pc[t].call.handle]
    /\ pc' = [pc EXCEPT ![t].at = "pending"]
    /\ actor' = t
    /\ CaptureFrame

CapturePending_skipped(t) ==
    /\ Runs(t)
    /\ pc[t].at = "pending"
    /\ g_isr_queue' = g_isr_queue
    /\ pc' = [pc EXCEPT ![t].at = "done", ![t].ret = "SS_OK"]
    /\ actor' = t
    /\ CaptureFrame

(* g_isr_queue[i].pending = 1 and return SS_OK. *)
CapturePending(t) ==
    /\ Runs(t)
    /\ pc[t].at = "pending"
    /\ g_isr_queue' = [g_isr_queue EXCEPT ![pc[t].idx].pending = TRUE]
    /\ pc' = [pc EXCEPT ![t].at = "done", ![t].ret = "SS_OK"]
    /\ actor' = t
    /\ CaptureFrame

Preempting ==
    [names |-> {NULL, AName(1), AName(SS_MAX_SIGNAL_NAME_LENGTH - 1)},
     uses |-> {"isr"},
     funcs |-> {"f1"},
     priorities |-> {SS_PRIORITY_NORMAL},
     regs |-> {<<"NULL", SS_PRIORITY_NORMAL>>},
     caps |-> {},
     values |-> {1, 2},
     handler_ops |-> {}]

(* The queue is empty or its first slots hold earlier captures. *)
InitPreempt ==
    /\ use_static \in BOOLEAN
    /\ env = Preempting
    /\ InitCommon
    /\ flush = IdleFlush
    /\ heap_strings = {}
    /\ serial = 1
    /\ batch = NoBatch
    /\ \E n \in 0..SS_ISR_QUEUE_SIZE :
          g_isr_queue = [i \in 0..SS_ISR_QUEUE_SIZE - 1 |->
                            IF i < n
                            THEN ss_emit_from_isr(
                                     [j \in 0..0 |-> ZeroIsr], AName(1), 1).queue[0]
                            ELSE ZeroIsr]
    /\ mutex = [kind |-> "none", owner |-> 0, count |-> 0]
    /\ pc = [t \in Threads |-> CaptureIdle]
    /\ actor = 0
    /\ deferred_ok = 0
    /\ BuildsInit
    /\ ReportInit

NextPreempt ==
    \/ \E t \in Threads, name \in env.names, value \in env.values :
          CaptureEnter(t, name, value)
    \/ \E t \in Threads : CaptureCopy(t)
    \/ \E t \in Threads : CaptureValue(t)
    \/ \E t \in Threads : CapturePending(t)

SpecPreempt == InitPreempt /\ [][NextPreempt]_vars

----------------------------------------------------------------------------
(* Properties.                                                             *)

RegisteredSignals == {s \in SigIds : g_context.signal_used[s]}

(* The slot list of s is in non-increasing priority order, and of two      *)
(* slots of equal priority the one connected earlier (smaller handle)      *)
(* comes first.                                                            *)
Ordered(C, s) ==
    LET l == SlotList(C, s)
    IN  \A i, j \in 1..Len(l) :
            i < j => \/ C.slot[l[i]].priority > C.slot[l[j]].priority
                     \/ /\ C.slot[l[i]].priority = C.slot[l[j]].priority
                        /\ C.slot[l[i]].handle < C.slot[l[j]].handle

(* C1: after any sequence of connects, disconnects (by handle, by          *)
(* function, all), emits and sweeps, the slot list of every signal is in   *)
(* non-increasing priority order, FIFO among slots of equal priority.      *)
C1_PriorityOrder == \A s \in RegisteredSignals : Ordered(g_context, s)

(* A signal with three slots where the slot connected last is first and    *)
(* the other two have equal priority, after a disconnect by handle.        *)
C1_Witness ==
    \E s \in RegisteredSignals :
        LET l == SlotList(g_context, s)
        IN  /\ Len(l) = 3
            /\ g_context.slot[l[1]].handle = 3
            /\ g_context.slot[l[2]].priority = g_context.slot[l[3]].priority
            /\ disconnected # {}

IsPrefix(a, b) == Len(a) <= Len(b) /\ a = SubSeq(b, 1, Len(a))

(* The one activation, and no callback of it has called the library. *)
QuietEmission == Len(stack) = 1 /\ stack[1].calls = "none"

(* The step is the return of ss_emit from its outermost activation. *)
EmitReturns == stack # <<>> /\ stack' = <<>> /\ ub' \notin {"crashed", "hang"}

(* C2: when callbacks do not call into the library, ss_emit on a signal    *)
(* with N connected slots invokes each of the N slots exactly once, in     *)
(* list order, and returns SS_OK.                                          *)
C2_Step ==
    /\ \A name \in env.names :
          find_signal(g_context, name) # 0
              => ss_emit_ret(g_context, name) = "SS_OK"
    /\ QuietEmission => IsPrefix(stack[1].log, stack[1].init)
    /\ QuietEmission /\ EmitReturns => stack[1].log = stack[1].init

(* C2: in every step, ss_emit of a registered signal returns SS_OK, and an  *)
(* emission whose handlers call nothing invokes every connected slot       *)
(* exactly once, in list order (nothing when the list is empty).           *)
C2_EmitInvokesAll == [][C2_Step]_vars

(* The callback of the last of three slots runs; none has called the       *)
(* library.                                                                *)
C2_Witness ==
    /\ QuietEmission
    /\ Len(stack[1].init) = 3
    /\ stack[1].log = stack[1].init


Times(q, x) == Cardinality({i \in 1..Len(q) : q[i] = x})

(* The one activation, and its callbacks have called ss_disconnect_handle  *)
(* and nothing else.                                                       *)
DisconnectingEmission ==
    Len(stack) = 1 /\ stack[1].calls = "ss_disconnect_handle"

(* The step invokes a callback (the log of the innermost activation       *)
(* grows) in an emission whose callbacks have called nothing but           *)
(* ss_disconnect_handle.                                                   *)
Invokes ==
    /\ stack' # <<>>
    /\ stack'[Len(stack')].calls \in {"none", "ss_disconnect_handle"}
    /\ \/ Len(stack') > Len(stack)
       \/ /\ Len(stack') = Len(stack)
          /\ Len(stack'[Len(stack')].log) > Len(stack[Len(stack)].log)

Invoked == LET f == stack'[Len(stack')] IN f.log[Len(f.log)]

(* C3: when a callback calls ss_disconnect_handle during an emission of    *)
(* its own signal, on itself or on another slot, the disconnected slot is  *)
(* never invoked later, and every other live slot is invoked exactly once  *)
(* in the emission in progress.                                            *)
C3_Step ==
    /\ Invokes => Invoked \notin disconnected
    /\ DisconnectingEmission =>
          \A h \in Range(stack[1].live) : Times(stack[1].log, h) <= 1
    /\ DisconnectingEmission /\ EmitReturns =>
          \A h \in Range(stack[1].live) \ disconnected :
              Times(stack[1].log, h) = 1

(* C3: in every step, a slot disconnected by handle is not invoked by the  *)
(* emission in progress or a later one, and every other live slot is       *)
(* invoked exactly once by the emission in progress.                       *)
C3_DisconnectDuringEmit == [][C3_Step]_vars

(* The callback of the last of three slots runs after the callback of the  *)
(* first has disconnected the second.                                      *)
C3_Witness ==
    /\ DisconnectingEmission
    /\ Len(stack[1].live) = 3
    /\ stack[1].live[2] \in disconnected
    /\ stack[1].log = <<stack[1].live[1], stack[1].live[3]>>

Frames == Range(stack)

(* The walk of activation f goes on without reading a released record. *)
WalkReadsAllocated(f) ==
    /\ g_context.signal_used[f.sig]
    /\ \A c \in Range(Chain(g_context, f.next_slot, SS_MAX_SLOTS + 1)) :
          g_context.slot_used[c]

(* The step releases the record of signal s or a slot of its list. *)
Releases(s) ==
    \/ ~g_context'.signal_used[s]
    \/ \E c \in Range(SlotList(g_context, s)) : ~g_context'.slot_used[c]

(* C4: a subscription is physically released only while the emitting       *)
(* depth of its signal is zero: whatever a callback calls during the       *)
(* emission (ss_disconnect_handle, ss_disconnect, ss_disconnect_all,       *)
(* ss_signal_unregister), the slots of a signal whose depth is > 0 are at  *)
(* most marked removed, so the walk never reads a released slot or signal  *)
(* record.                                                                 *)
C4_Step ==
    /\ \A f \in Frames : WalkReadsAllocated(f)
    /\ \A s \in RegisteredSignals :
          g_context.sig[s].emitting > 0 /\ Releases(s)
              => g_context'.sig[s].emitting = 0

(* C4: in every step, a slot or signal is released only when the signal's  *)
(* emitting depth is zero, and the walk never reads a released one.        *)
C4_ReleaseOnlyAtDepthZero == [][C4_Step]_vars

(* The handles given out so far. *)
Issued == 1..(g_context.next_handle - 1)

(* Handle h is that of a slot, not marked removed, of a registered signal. *)
Subscribed(h) ==
    \E s \in RegisteredSignals : h \in Range(LiveHandles(g_context, s))

(* C5: for every handle h of a successful ss_connect_ex, emitting or not,  *)
(* the first ss_disconnect_handle(h) returns SS_OK and every later one     *)
(* returns SS_ERR_NOT_FOUND.                                               *)
C5_DisconnectOnce ==
    \A h \in Issued :
        LET ret == ss_disconnect_handle(g_context, h).ret
        IN  /\ h \in disconnected => ret = "SS_ERR_NOT_FOUND"
            /\ h \notin disconnected /\ Subscribed(h) => ret = "SS_OK"

(* What ss_connect_ex would do in the current state. *)
ConnectNow(name, func, priority) ==
    ss_connect_ex(g_context, name, func, priority, SlotCell(g_context))

(* C6: the handles of successive successful ss_connect_ex calls are        *)
(* strictly increasing and not zero, so no two subscriptions (live, marked *)
(* removed or released) share a handle; a connect that fails consumes no   *)
(* handle.                                                                 *)
C6_Handles ==
    /\ g_context.next_handle >= 1
    /\ \A c \in SlotIds :
          /\ g_context.slot_used[c] => g_context.slot[c].handle \in Issued
          /\ g_context.slot[c].handle # 0 =>
                \A d \in SlotIds \ {c} :
                    g_context.slot[d].handle # g_context.slot[c].handle
    /\ \A name \in env.names, func \in env.funcs, priority \in env.priorities :
          LET R == ConnectNow(name, func, priority)
          IN  IF R.ret = "SS_OK"
              THEN /\ R.ctx.next_handle = g_context.next_handle + 1
                   /\ \E c \in SlotIds :
                         /\ R.ctx.slot_used[c]
                         /\ R.ctx.slot[c].handle = g_context.next_handle
              ELSE R.ctx.next_handle = g_context.next_handle

(* Three handles were given out, one connect found its signal full, and    *)
(* the slot of the second handle is gone.                                  *)
C6_Witness ==
    /\ g_context.next_handle = 4
    /\ \E s \in RegisteredSignals :
          /\ ListHandles(g_context, s) = <<1, 3>>
          /\ slots_at_max(g_context, s)

(* C7: after any sequence of register and unregister calls,                *)
(* ss_signal_exists(name) is true exactly for the names whose last         *)
(* successful call was a register, and ss_get_signal_count is the number   *)
(* of those names.                                                         *)
C7_Exists ==
    /\ \A name \in env.names :
          ss_signal_exists(g_context, name) = 1 <=> name \in reg_names
    /\ ss_get_signal_count(g_context) = Cardinality(reg_names)

(* Two names were registered and the one registered first was             *)
(* unregistered again.                                                     *)
C7_Witness ==
    /\ reg_names = {AName(2)}
    /\ \E s \in SigIds : ~g_context.signal_used[s]
                          /\ g_context.sig[s].name = AName(1)
    /\ ss_get_signal_count(g_context) = 1

(* What ss_signal_register_ex would do in the current state. *)
RegisterNow(name, d) ==
    ss_signal_register_ex(g_context, name, d[1], d[2], SignalCell(g_context))

(* C8: ss_signal_register_ex on a registered name returns                  *)
(* SS_ERR_ALREADY_EXISTS and leaves the signal (slot list, description,    *)
(* priority) and the signal count as they are; no two registered signals   *)
(* have the same name.                                                     *)
C8_DuplicateRegister ==
    /\ \A name \in reg_names, d \in env.regs :
          /\ RegisterNow(name, d).ret = "SS_ERR_ALREADY_EXISTS"
          /\ RegisterNow(name, d).ctx = g_context
    /\ LET ord == SignalOrder(g_context)
       IN  \A i, j \in 1..Len(ord) :
               i # j => g_context.sig[ord[i]].name # g_context.sig[ord[j]].name

(* Two signals of different description and priority are registered, one   *)
(* of them with a slot.                                                    *)
C8_Witness ==
    /\ Cardinality(reg_names) = 2
    /\ \E s, t \in RegisteredSignals :
          /\ g_context.sig[s].description # g_context.sig[t].description
          /\ g_context.sig[s].priority # g_context.sig[t].priority
          /\ g_context.sig[s].slots # 0

(* A signal named AName(n) is not registered and there is room for it. *)
CanRegister(n) == AName(n) \notin reg_names /\ SignalCell(g_context) # 0

(* ss_signal_register_ex refuses the name of n characters as too long and  *)
(* leaves the registry as it is.                                           *)
TooLong(n) ==
    \A d \in env.regs :
        /\ RegisterNow(AName(n), d).ret = "SS_ERR_WOULD_OVERFLOW"
        /\ RegisterNow(AName(n), d).ctx = g_context

(* ss_signal_register_ex takes the name of n characters whenever it is     *)
(* not registered and there is room.                                       *)
Accepted(n) ==
    \A d \in env.regs :
        CanRegister(n) =>
            /\ RegisterNow(AName(n), d).ret = "SS_OK"
            /\ ss_signal_exists(RegisterNow(AName(n), d).ctx, AName(n)) = 1

C10_MaxSlots ==
    \A name \in reg_names, func \in env.funcs \ {"NULL"},
       priority \in env.priorities :
        LET s == find_signal(g_context, name)
        IN  Len(LiveHandles(g_context, s)) >= g_context.max_slots_per_signal
                => /\ ConnectNow(name, func, priority).ret = "SS_ERR_MAX_SLOTS"
                   /\ ConnectNow(name, func, priority).ctx = g_context

(* The cap is 2, the first two slots are in the list, and a callback has   *)
(* called ss_connect_ex, and nothing else, during their emission.          *)
C10_Witness ==
    /\ g_context.max_slots_per_signal = 2
    /\ Len(stack) = 1
    /\ stack[1].calls = "ss_connect_ex"
    /\ stack[1].init = <<1, 2>>
    /\ ListHandles(g_context, stack[1].sig) = <<1, 2>>
    /\ g_context.next_handle = 3

----------------------------------------------------------------------------
(* C11: a flush emits the entries queued when it began exactly once and in *)
(* enqueue order, and emits no entry deferred by a callback during the     *)
(* flush, however many entries callbacks defer.                            *)
C11_FlushFifo ==
    flush.active =>
        /\ IsPrefix(flush.log, flush.snap)
        /\ flush.at = "emit" /\ flush.i = flush.count => flush.log = flush.snap
        /\ \A k \in Range(flush.log) : k < flush.from

(* The names the application passes that do not fit a name buffer. *)
OverLength ==
    {name \in env.names \ {NULL} : Len(name) >= SS_MAX_SIGNAL_NAME_LENGTH}

(* C12: whatever is stored so far, a call that stores a signal name        *)
(* (register, deferred emit, batch add, interrupt capture) given an        *)
(* over-length name returns an error and stores nothing.                   *)
C12_NoTruncation ==
    g_context.allocated =>
        \A name \in OverLength, data \in Payloads :
            /\ LET R == ss_signal_register_ex(g_context, name, "NULL",
                            SS_PRIORITY_NORMAL, SignalCell(g_context))
               IN  R.ret # "SS_OK" /\ R.ctx = g_context
            /\ LET R == ss_emit_deferred(g_context, name, data)
               IN  R.ret # "SS_OK" /\ R.ctx = g_context
            /\ LET R == ss_batch_add(batch, name, data)
               IN  R.ret # "SS_OK" /\ R.batch = batch
            /\ LET R == ss_emit_from_isr(g_isr_queue, name, 0)
               IN  R.ret # "SS_OK" /\ R.queue = g_isr_queue

(* The capture slots whose pending flag is set. *)
Pending == {i \in DOMAIN g_isr_queue : g_isr_queue[i].pending}

(* C13: captures into an empty queue fill one slot each, with exactly the  *)
(* captured name and value, and return SS_OK until all SS_ISR_QUEUE_SIZE   *)
(* slots are pending; from then on a capture returns SS_ERR_WOULD_OVERFLOW *)
(* and changes no slot.                                                    *)
C13_IsrCapture ==
    \A name \in env.names \ {NULL}, value \in {0, 1} :
        LET R == ss_emit_from_isr(g_isr_queue, name, value)
            taken == {i \in DOMAIN g_isr_queue :
                         R.queue[i] # g_isr_queue[i]}
        IN  IF Cardinality(Pending) < SS_ISR_QUEUE_SIZE
            THEN /\ R.ret = "SS_OK"
                 /\ \E i \in DOMAIN g_isr_queue \ Pending :
                        /\ taken \subseteq {i}
                        /\ R.queue[i] = [signal_name |-> name,
                                         value |-> value,
                                         pending |-> TRUE]
            ELSE /\ R.ret = "SS_ERR_WOULD_OVERFLOW"
                 /\ R.queue = g_isr_queue

(* A step of ss_cleanup releases the registry and the queued strings. *)
C18_Step ==
    g_context.allocated /\ ~g_context'.allocated =>
        /\ \A s \in SigIds : ~g_context'.signal_used[s]
        /\ \A c \in SlotIds : ~g_context'.slot_used[c]
        /\ heap_strings' \cap EntryStrings(g_context.deferred_queue,
                                           g_context.deferred_count) = {}

(* C18: a step of ss_cleanup leaves no signal record and no slot allocated *)
(* and frees every duplicated string of the entries that were in the       *)
(* deferred queue, in both builds.                                         *)
C18_CleanupReleases == [][C18_Step]_vars

(* C17: after every call made in both builds, neither at a storage limit,  *)
(* the two builds returned the same code, invoked the same slots in the    *)
(* same order and report the same name, slot count, description and        *)
(* priority of every registered signal.                                    *)
C17_BuildsAgree == pending.call = NoCall => pending.first = pending.second

----------------------------------------------------------------------------
(* What ss_signal_unregister would do in the current state. *)
UnregisterNow(name) == ss_signal_unregister(g_context, name)

(* The registry after ss_signal_unregister(name) answers as if the signal  *)
(* and the subscriptions with handles hs had never been there.             *)
Removed(C, name, hs) ==
    /\ ss_emit_ret(C, name) = "SS_ERR_NOT_FOUND"
    /\ ss_signal_exists(C, name) = 0
    /\ \A func \in env.funcs \ {"NULL"}, priority \in env.priorities :
          ss_connect_ex(C, name, func, priority, SlotCell(C)).ret
              = "SS_ERR_NOT_FOUND"
    /\ \A h \in hs : ss_disconnect_handle(C, h).ret = "SS_ERR_NOT_FOUND"
    /\ \A t \in SigIds : C.signal_used[t] => hs \cap Range(ListHandles(C, t)) = {}
    /\ \A d \in env.regs :
          LET R == ss_signal_register_ex(C, name, d[1], d[2], SignalCell(C))
              s == find_signal(R.ctx, name)
          IN  /\ R.ret = "SS_OK"
              /\ s # 0
              /\ R.ctx.sig[s].slot_count = 0
              /\ ListHandles(R.ctx, s) = <<>>

(* C19: ss_signal_unregister of an unknown name returns SS_ERR_NOT_FOUND   *)
(* and changes nothing; of a registered signal that is not emitting it     *)
(* returns SS_OK, after which ss_emit and ss_connect_ex on the name and    *)
(* ss_disconnect_handle on each of its handles return SS_ERR_NOT_FOUND and *)
(* a new registration of the name has zero slots; and no activation has    *)
(* invoked a slot of a signal unregistered that way.                       *)
C19_Unregister ==
    /\ \A name \in env.names \ {NULL} :
          LET s == find_signal(g_context, name)
          IN  IF s = 0
              THEN /\ UnregisterNow(name).ret = "SS_ERR_NOT_FOUND"
                   /\ UnregisterNow(name).ctx = g_context
              ELSE NotEmitting(s) =>
                      /\ UnregisterNow(name).ret = "SS_OK"
                      /\ Removed(UnregisterNow(name).ctx, name,
                                 Range(ListHandles(g_context, s)))
    /\ \A f \in Frames : Range(f.log) \cap unregistered = {}

(* A signal with two slots was unregistered while not emitting, its name   *)
(* was registered again and given a new slot, whose callback now runs.     *)
C19_Witness ==
    /\ unregistered = {1, 2}
    /\ Len(stack) = 1
    /\ stack[1].log = <<3>>
    /\ stack[1].name \in reg_names

----------------------------------------------------------------------------
(* The calls of the registry operations with every argument the            *)
(* application passes, as <<context after, code returned>> results made    *)
(* from the current state.                                                 *)
CallsNow ==
    {RegisterNow(name, d) : name \in env.names, d \in env.regs}
    \cup {UnregisterNow(name) : name \in env.names}
    \cup {ConnectNow(a[1], a[2], a[3]) :
             a \in env.names \X (env.funcs \cup {"NULL"}) \X env.priorities}
    \cup {ss_disconnect_handle(g_context, h) : h \in HandleInputs}
    \cup {ss_disconnect_all(g_context, name) : name \in env.names}
    \cup {ss_disconnect(g_context, a[1], a[2]) :
             a \in env.names \X (env.funcs \cup {"NULL"})}

(* C20: a call of ss_signal_register_ex, ss_signal_unregister,             *)
(* ss_connect_ex, ss_disconnect_handle, ss_disconnect_all or ss_disconnect *)
(* that returns an error leaves the whole context (signals, slot lists,    *)
(* slot counts, signal count, next handle) as it was, and an ss_emit that  *)
(* returns an error does the same and invokes no slot.                     *)
C20_ErrorsChangeNothing ==
    /\ \A R \in CallsNow : R.ret # "SS_OK" => R.ctx = g_context
    /\ \A name \in env.names :
          LET E == ss_emit_quiet(g_context, name)
          IN  E.ret # "SS_OK" => E.ctx = g_context /\ E.invoked = <<>>

(* A callback runs and has called ss_disconnect_handle, and from here a    *)
(* call with an unknown name, a registered name, a signal at its cap, a    *)
(* NULL argument or a name that is too long returns the error for it.      *)
C20_Witness ==
    /\ Len(stack) = 1
    /\ stack[1].calls = "ss_disconnect_handle"
    /\ disconnected # {}
    /\ \E name \in env.names \ {NULL} : find_signal(g_context, name) = 0
    /\ \E R \in CallsNow : R.ret = "SS_ERR_ALREADY_EXISTS"
    /\ \E R \in CallsNow : R.ret = "SS_ERR_MAX_SLOTS"
    /\ \E R \in CallsNow : R.ret = "SS_ERR_NOT_FOUND"
    /\ \E R \in CallsNow : R.ret = "SS_ERR_NULL_PARAM"
    /\ \E R \in CallsNow : R.ret = "SS_ERR_WOULD_OVERFLOW"

----------------------------------------------------------------------------
(* Thread t is between the SS_MUTEX_LOCK and the SS_MUTEX_UNLOCK of a call *)
(* of it: in the body of a call, or (thread 1) anywhere in an ss_emit that *)
(* has begun its walk.                                                     *)
InCritical(t) == pc[t].at = "body" \/ (t = 1 /\ stack # <<>>)

(* C14: with thread safety enabled, at most one thread is inside the       *)
(* critical section of register, unregister, connect, the three            *)
(* disconnects, exists and emit; ss_emit holds the lock from its lookup    *)
(* through every slot invocation and the sweep; and a thread that has      *)
(* returned from its call (by any return path) does not hold the lock.     *)
C14_MutualExclusion ==
    g_context.thread_safe =>
        /\ Cardinality({t \in Threads : InCritical(t)}) <= 1
        /\ stack # <<>> => mutex.owner = 1
        /\ \A t \in Threads : pc[t].at = "idle" => mutex.owner # t

(* C15: a callback that calls ss_emit, ss_connect_ex or a disconnect       *)
(* during an emission, from the emitting thread, never waits for ever for  *)
(* the lock its own ss_emit holds: the call returns and the emission goes  *)
(* on, with thread safety disabled and enabled.                            *)
C15_NoSelfDeadlock == \A t \in Threads : pc[t].at # "deadlock"

(* A step that changes the context is taken by the owner of the mutex, and *)
(* the deferred count is the number of successful ss_emit_deferred calls.  *)
C16_Step ==
    /\ /\ g_context.thread_safe
       /\ g_context' # g_context
       /\ ub' \notin {"crashed", "hang"}
       => mutex.owner = actor'
    /\ g_context'.thread_safe => g_context'.deferred_count = deferred_ok'

(* C16: with thread safety enabled, in every step, a thread that changes   *)
(* the shared context (ss_emit_deferred and ss_set_max_slots_per_signal    *)
(* included) holds the lock, and the deferred count is the number of       *)
(* ss_emit_deferred calls that returned SS_OK: two concurrent calls on an  *)
(* empty queue leave the count at 2.                                       *)
C16_MutationUnderLock == [][C16_Step]_vars

----------------------------------------------------------------------------
(* The code of the last call is an error code. *)
Failed == report.ret \in {"SS_ERR_NULL_PARAM", "SS_ERR_MEMORY",
                          "SS_ERR_NOT_FOUND", "SS_ERR_ALREADY_EXISTS",
                          "SS_ERR_MAX_SLOTS", "SS_ERR_WOULD_OVERFLOW"}

(* C21: while an error handler is installed, a call of a registry          *)
(* operation (register, connect, emit, the disconnects, unregister,        *)
(* deferred emit, namespaced emit) that returns an error code has told the *)
(* handler that code, once.                                                *)
C21_ErrorsReported ==
    report.handler /\ Failed => report.codes = <<report.ret>>

(* C27: for a namespace and a name whose composition ns "::" name is       *)
(* shorter than SS_MAX_SIGNAL_NAME_LENGTH, ss_emit_namespaced returns what *)
(* ss_emit of the composed name returns, invokes the same slots and leaves *)
(* the same context; for a longer composition it returns                   *)
(* SS_ERR_WOULD_OVERFLOW, invokes nothing and leaves the context as it is. *)
C27_NamespacedEmit ==
    "locals" \in DOMAIN env =>
        \A ns \in env.namespaces \ {NULL}, name \in env.locals \ {NULL} :
            LET R == ss_emit_namespaced(g_context, ns, name)
            IN  IF Len(Compose(ns, name)) < SS_MAX_SIGNAL_NAME_LENGTH
                THEN R = ss_emit_quiet(g_context, Compose(ns, name))
                ELSE R = [ctx |-> g_context, ret |-> "SS_ERR_WOULD_OVERFLOW",
                          invoked |-> <<>>]

(* A namespaced emit of "" and "" has invoked the slot of the signal "::", *)
(* and a composition that is too long can be asked for.                    *)
C27_Witness ==
    /\ "locals" \in DOMAIN env
    /\ report.op = "ss_emit_namespaced"
    /\ report.ret = "SS_OK"
    /\ ss_emit_namespaced(g_context, <<>>, <<>>).invoked # <<>>
    /\ ss_emit_namespaced(g_context, AName(1), <<>>).ret
           = "SS_ERR_WOULD_OVERFLOW"

(* The entries of the flush's snapshot whose signal ss_emit does not find. *)
FailingEntries ==
    {k \in 1..flush.count :
        ss_emit_ret(g_context, flush.names[k]) # "SS_OK"}

(* C22: when ss_flush_deferred is about to return, it has handed every     *)
(* entry of its snapshot to ss_emit, failures before it or not, its result *)
(* is the code of the last snapshot entry whose emit failed, SS_OK when    *)
(* none failed, and no entry of the snapshot is queued any more.           *)
C22_FlushAttemptsAll ==
    flush.active /\ flush.at = "emit" /\ flush.i = flush.count =>
        /\ Len(flush.log) = flush.count
        /\ \A k \in 1..flush.count : flush.log[k] = flush.snap[k]
        /\ flush.result =
              IF FailingEntries = {} THEN "SS_OK"
              ELSE ss_emit_ret(g_context,
                               flush.names[-MinOf({-k : k \in FailingEntries})])
        /\ \A j \in 0..g_context.deferred_count - 1 :
              LET v == g_context.deferred_queue[j].data.value
              IN  v # 0 => v \notin Range(flush.snap)

(* What ss_emit_deferred does to the queue of the present state: on a full *)
(* queue it returns SS_ERR_WOULD_OVERFLOW and changes nothing; when it     *)
(* returns SS_OK the count is one more, the entries before the tail are    *)
(* as they were and nothing else of the context has changed.               *)
DeferAppendsOne ==
    \A name \in env.names \ {NULL} :
        LET R == ss_emit_deferred(g_context, name, NoData)
            n == g_context.deferred_count
        IN  /\ n >= SS_DEFERRED_QUEUE_SIZE =>
                  R.ret = "SS_ERR_WOULD_OVERFLOW" /\ R.ctx = g_context
            /\ R.ret = "SS_OK" =>
                  /\ R.ctx.deferred_count = n + 1
                  /\ \A j \in 0..n - 1 :
                        R.ctx.deferred_queue[j] = g_context.deferred_queue[j]
                  /\ R.ctx.deferred_queue[n] = deferred_entry(name, NoData)
                  /\ [R.ctx EXCEPT
                        !.deferred_queue = g_context.deferred_queue,
                        !.deferred_count = n] = g_context

(* C23: the deferred queue never holds more than SS_DEFERRED_QUEUE_SIZE    *)
(* entries; ss_emit_deferred on a full queue returns SS_ERR_WOULD_OVERFLOW *)
(* and leaves entries and count as they are, and a successful one appends  *)
(* exactly one entry at the tail.                                          *)
C23_QueueBounded ==
    g_context.allocated /\ g_context.thread_safe =>
        /\ g_context.deferred_count <= SS_DEFERRED_QUEUE_SIZE
        /\ DeferAppendsOne

(* Sequence q without its element at position j. *)
Without(q, j) == SubSeq(q, 1, j - 1) \o SubSeq(q, j + 1, Len(q))

(* The positions, among the slots of signal s not marked removed, of the   *)
(* slots whose function is func.                                           *)
LiveWith(C, s, func) ==
    LET l == SelectSeq(SlotList(C, s), LAMBDA c : ~C.slot[c].removed)
    IN  {j \in 1..Len(l) : C.slot[l[j]].func = func}

NoSlots(C, s) == C.sig[s].slots = 0 /\ C.sig[s].slot_count = 0

(* C26: ss_disconnect_all of a registered signal returns SS_OK.  Called    *)
(* while no emission is in progress it leaves the list empty and the count *)
(* zero at once.  Called by a callback of an emission of that signal it    *)
(* marks every slot removed and unlinks none, the walk that goes on after  *)
(* the callback invokes no further slot, and the end of the emission       *)
(* leaves the list empty and the count zero.                               *)
C26_DisconnectAll ==
    /\ stack = <<>> =>
          \A name \in env.names \ {NULL} :
              LET s == find_signal(g_context, name)
                  R == ss_disconnect_all(g_context, name)
              IN  s # 0 => R.ret = "SS_OK" /\ NoSlots(R.ctx, s)
    /\ \A f \in Frames :
          find_signal(g_context, f.name) = f.sig =>
              LET R == ss_disconnect_all(g_context, f.name)
              IN  /\ R.ret = "SS_OK"
                  /\ LiveHandles(R.ctx, f.sig) = <<>>
                  /\ ListHandles(R.ctx, f.sig) = ListHandles(g_context, f.sig)
                  /\ walk(R.ctx, f.next_slot, 2 * SS_MAX_SLOTS + 2).kind = "end"
                  /\ NoSlots(emit_finish(R.ctx, f.sig), f.sig)

(* The activations of ss_emit on signal s that are on the call stack. *)
Activations(stk, s) == {i \in 1..Len(stk) : stk[i].sig = s}

(* The step invokes a callback: a new activation is on the stack or the    *)
(* log of the innermost one has grown.                                     *)
InvokesSlot ==
    /\ stack' # <<>>
    /\ \/ Len(stack') > Len(stack)
       \/ /\ Len(stack') = Len(stack)
          /\ Len(stack'[Len(stack')].log) > Len(stack[Len(stack)].log)

(* The emitting depth of every registered signal is the number of ss_emit  *)
(* activations on it, zero when there is none; a slot marked removed stays *)
(* linked and allocated over a step after which an activation on its       *)
(* signal is still on the stack; the slot a step invokes is not marked     *)
(* removed.                                                                *)
C28_Step ==
    /\ \A s \in SigIds :
          g_context'.signal_used[s] =>
              g_context'.sig[s].emitting = Cardinality(Activations(stack', s))
    /\ \A s \in SigIds, c \in SlotIds :
          /\ g_context.signal_used[s]
          /\ c \in Range(SlotList(g_context, s))
          /\ g_context.slot[c].removed
          /\ Activations(stack', s) # {}
          => /\ g_context'.slot_used[c]
             /\ g_context'.signal_used[s]
             /\ c \in Range(SlotList(g_context', s))
    /\ InvokesSlot => ~g_context.slot[stack'[Len(stack')].slot].removed

(* C28: in every step, with callbacks that emit their own signal, the      *)
(* emitting depth of a signal equals the number of ss_emit calls for it on *)
(* the call stack (zero when none), slots marked removed are unlinked only *)
(* when the outermost emission finishes, and no pass invokes a slot marked *)
(* removed.                                                                *)
C28_DepthNests == [][C28_Step]_vars

(* The handles the walk invokes from slot pointer from on, when the        *)
(* callbacks it runs change nothing more.                                  *)
StillInvoked(C, from) ==
    LET l == SelectSeq(Chain(C, from, SS_MAX_SLOTS + 1),
                       LAMBDA c : ~C.slot[c].removed)
    IN  [j \in 1..Len(l) |-> C.slot[l[j]].handle]

(* The running callback of activation f has a successor: the slot that the *)
(* walk snapshotted as next is allocated, linked in the list of f's signal *)
(* and not marked removed.                                                 *)
HasLiveSuccessor(f) ==
    /\ f.next_slot # 0
    /\ g_context.signal_used[f.sig]
    /\ f.next_slot \in Range(SlotList(g_context, f.sig))
    /\ g_context.slot_used[f.next_slot]
    /\ ~g_context.slot[f.next_slot].removed

(* C29: when the running callback disconnects, by its handle, the slot     *)
(* that the walk has already snapshotted as next, the call returns SS_OK,  *)
(* the walk that goes on reads no released slot and does not invoke the    *)
(* disconnected slot, and it invokes the live slots behind it, each once,  *)
(* in list order.                                                          *)
C29_SuccessorNotInvoked ==
    \A f \in Frames :
        HasLiveSuccessor(f) =>
            LET n == f.next_slot
                R == ss_disconnect_handle(g_context, g_context.slot[n].handle)
                w == walk(R.ctx, n, 2 * SS_MAX_SLOTS + 2)
            IN  /\ R.ret = "SS_OK"
                /\ ~w.released
                /\ w.slot # n
                /\ StillInvoked(R.ctx, n)
                      = StillInvoked(g_context, g_context.slot[n].next)

(* The step is one of ss_emit_from_isr. *)
IsrStep == actor' = 2

(* The context, the mutex and the call stack of the thread stay as they    *)
(* are over a step of ss_emit_from_isr; whoever holds the mutex, the       *)
(* interrupt handler has a step to take; the call returns SS_OK,           *)
(* SS_ERR_WOULD_OVERFLOW or, without a name, SS_ERR_NULL_PARAM.            *)
C24_Step ==
    /\ IsrStep =>
          /\ g_context' = g_context
          /\ mutex' = mutex
          /\ stack' = stack
          /\ pc'[1] = pc[1]
          /\ flush' = flush /\ batch' = batch /\ heap_strings' = heap_strings
    /\ ENABLED IsrNext
    /\ report'.op = "ss_emit_from_isr" =>
          report'.ret \in {"none", "SS_OK", "SS_ERR_WOULD_OVERFLOW",
                           "SS_ERR_NULL_PARAM"}

(* C24: in every step, ss_emit_from_isr takes no lock and waits for none,  *)
(* changes nothing but the capture queue (signals, slot lists, deferred    *)
(* queue and handle counter stay as they are), and goes on to its return   *)
(* of SS_OK or SS_ERR_WOULD_OVERFLOW also while a thread holds the         *)
(* registry lock.                                                          *)
C24_IsrTouchesOnlyQueue == [][C24_Step]_vars

(* The last step was the return of SS_ERR_WOULD_OVERFLOW by a capture on   *)
(* the full queue, taken while thread 1 is inside a registry call and owns *)
(* the mutex.                                                              *)
C24_Witness ==
    /\ g_context.thread_safe
    /\ mutex.owner = 1
    /\ pc[1].at = "body"
    /\ actor = 2
    /\ report.ret = "SS_ERR_WOULD_OVERFLOW"
    /\ \A i \in DOMAIN g_isr_queue : g_isr_queue[i].pending

(* The slot of the capture in progress holds the whole name, as ss_strscpy *)
(* stores it, and the value of the call.                                   *)
CaptureWritten(Q) ==
    /\ Q[pc[2].idx].signal_name
          = ss_strscpy(pc[2].call.name, SS_MAX_SIGNAL_NAME_LENGTH).dst
    /\ Q[pc[2].idx].value = pc[2].call.handle

(* A slot becomes pending only in the last step of the capture that wrote  *)
(* it, with its name and value written, and from then on no store changes  *)
(* it.                                                                     *)
C30_Step ==
    \A i \in DOMAIN g_isr_queue :
        /\ ~g_isr_queue[i].pending /\ g_isr_queue'[i].pending =>
              /\ pc[2].at = "pending" /\ pc[2].idx = i
              /\ CaptureWritten(g_isr_queue)
              /\ CaptureWritten(g_isr_queue')
              /\ pc'[2].at = "idle"
              /\ report'.ret = "SS_OK"
        /\ g_isr_queue[i].pending => g_isr_queue'[i] = g_isr_queue[i]

(* C30: in every step of a capture, the name and the value of the slot are *)
(* completely written before pending is set and pending is the last store  *)
(* of the call, so that no slot is pending with a name or value that is    *)
(* partly written or that of another capture.                              *)
C30_PendingLast == [][C30_Step]_vars

(* The first slot is pending with the name and value of its capture while  *)
(* a second capture has written its name and not yet its value.            *)
C30_Witness ==
    /\ g_isr_queue[0] = [signal_name |-> AName(1), value |-> 1,
                         pending |-> TRUE]
    /\ pc[2].at = "value"
    /\ pc[2].idx = 1
    /\ pc[2].call.handle = 2
    /\ g_isr_queue[1] = [signal_name |-> AName(SS_MAX_SIGNAL_NAME_LENGTH - 1),
                         value |-> 0, pending |-> FALSE]

----------------------------------------------------------------------------
(* The pending marks of the capture queue, and what a completed call left. *)
PendingSlots == {i \in DOMAIN g_isr_queue : g_isr_queue[i].pending}

Captured(t) == pc[t].at = "done" /\ pc[t].ret = "SS_OK"

Holds(t) ==
    /\ g_isr_queue[pc[t].idx].pending
    /\ g_isr_queue[pc[t].idx].signal_name =
           ss_strscpy(pc[t].call.name, SS_MAX_SIGNAL_NAME_LENGTH).dst
    /\ g_isr_queue[pc[t].idx].value = pc[t].call.handle

(* C31: two ss_emit_from_isr calls that both returned SS_OK either took    *)
(* different slots, and then each slot is pending with its own call's      *)
(* name and value, or the second call started between the first one's      *)
(* free-slot check and its pending write, and then both took the same      *)
(* slot: one slot became pending for the two calls.                        *)
C31_SingleProducer ==
    (Captured(1) /\ Captured(2)) =>
        IF pc[1].idx # pc[2].idx
        THEN /\ Holds(1) /\ Holds(2)
             /\ Cardinality(PendingSlots) = MinOf({pc[1].idx, pc[2].idx}) + 2
        ELSE /\ g_isr_queue[pc[1].idx].pending
             /\ Cardinality(PendingSlots) = pc[1].idx + 1

(* Both calls returned SS_OK, one slot is pending, and it holds the name   *)
(* of one call with the value of the other.                                *)
C31_Witness ==
    /\ Captured(1) /\ Captured(2)
    /\ pc[1].idx = pc[2].idx
    /\ pc[1].call.name # pc[2].call.name
    /\ pc[1].call.handle # pc[2].call.handle
    /\ Cardinality(PendingSlots) = pc[1].idx + 1
    /\ g_isr_queue[pc[1].idx].signal_name =
           ss_strscpy(pc[2].call.name, SS_MAX_SIGNAL_NAME_LENGTH).dst
    /\ g_isr_queue[pc[1].idx].value = pc[1].call.handle

----------------------------------------------------------------------------
(* The flush from one step to the next. *)
C32_Step ==
    /\ (~flush.active /\ flush'.active) =>
           /\ flush'.count = g_context.deferred_count
           /\ flush'.i = 0
           /\ flush'.log = <<>>
    /\ (flush.active /\ flush'.active) =>
           /\ flush'.count = flush.count
           /\ flush'.i \in {flush.i, flush.i + 1}
           /\ flush'.i <= flush.count
           /\ Len(flush'.log) =
                 IF flush.at = "emit" /\ flush'.at = "free"
                 THEN Len(flush.log) + 1 ELSE Len(flush.log)
    /\ (flush.active /\ ~flush'.active /\ ub' # "crashed") =>
           /\ flush.i = flush.count
           /\ Len(flush.log) = flush.count

----------------------------------------------------------------------------
(* The deferred queue of the context, and the batch with its emit call. *)
DeferredQueue(C) == <<C.deferred_queue, C.deferred_count>>

BatchLog(B) ==
    [j \in 1..B.count |->
        <<B.entries[j - 1].signal_name, B.entries[j - 1].data.value>>]

FailingEmits(log) ==
    {k \in 1..Len(log) : ss_emit_ret(g_context, log[k][1]) # "SS_OK"}

C33_Step ==
    /\ (batch' # batch \/ pc'[1] # pc[1]) =>
           /\ DeferredQueue(g_context') = DeferredQueue(g_context)
           /\ flush' = flush
    /\ (flush' # flush \/ DeferredQueue(g_context') # DeferredQueue(g_context)) =>
           /\ batch' = batch
           /\ pc' = pc
    /\ batch.count >= SS_DEFERRED_QUEUE_SIZE =>
           \A name \in env.names \cup env.strangers, data \in Payloads :
               ss_batch_add(batch, name, data) =
                   [batch |-> batch, ret |-> "SS_ERR_WOULD_OVERFLOW", dup |-> 0]
    /\ batch'.count = batch.count + 1 =>
           \A j \in 0..batch.count - 1 :
               [batch'.entries[j] EXCEPT !.has_string = FALSE] =
                   [batch.entries[j] EXCEPT !.has_string = FALSE]
    /\ (pc[1].at = "loop" /\ pc'[1].at = "idle") =>
           /\ pc[1].log = BatchLog(batch)
           /\ pc[1].result =
                 IF FailingEmits(pc[1].log) = {} THEN "SS_OK"
                 ELSE ss_emit_ret(g_context,
                        pc[1].log[-MinOf({-k : k \in FailingEmits(pc[1].log)})][1])

(* C33: no step of ss_batch_add, ss_batch_emit or ss_batch_destroy changes *)
(* the deferred queue's entries or count (or the flush in progress), no    *)
(* step of ss_emit_deferred or ss_flush_deferred changes the batch,        *)
(* ss_batch_add on a full batch returns SS_ERR_WOULD_OVERFLOW and changes  *)
(* nothing, an add leaves the entries before it as they are, and when      *)
(* ss_batch_emit returns it has emitted the entries in index order and     *)
(* its result is the code of the last emit that failed, SS_OK when none.   *)
C33_BatchIndependent == [][C33_Step]_vars

(* ss_batch_emit is about to return SS_ERR_NOT_FOUND: of the two entries   *)
(* of a full batch the first failed and the second did not, while the      *)
(* deferred queue holds an entry.                                          *)
C33_Witness ==
    /\ pc[1].at = "loop"
    /\ pc[1].i = batch.count
    /\ batch.count = SS_DEFERRED_QUEUE_SIZE
    /\ pc[1].result = "SS_ERR_NOT_FOUND"
    /\ ss_emit_ret(g_context, pc[1].log[1][1]) = "SS_ERR_NOT_FOUND"
    /\ ss_emit_ret(g_context, pc[1].log[Len(pc[1].log)][1]) = "SS_OK"
    /\ g_context.deferred_count > 0

----------------------------------------------------------------------------
(* The entries of the batch added since the running ss_batch_emit began. *)
AddedDuringEmit ==
    {j \in 0..batch.count - 1 : batch.entries[j].data.value >= pc[1].from}

C38_Step ==
    /\ (pc[1].at = "loop" /\ pc'[1].at = "loop") =>
           /\ pc'[1].i = pc[1].i
           /\ batch'.count >= batch.count
    /\ (pc[1].at = "loop" /\ pc'[1].at = "idle") =>
           /\ Len(pc[1].log) = batch.count
           /\ \A j \in AddedDuringEmit :
                 pc[1].log[j + 1] = <<batch.entries[j].signal_name,
                                      batch.entries[j].data.value>>
           /\ batch'.count = 0
    /\ (pc[1].at = "loop" /\ pc[1].i = 0 /\ batch.count = 0 /\ pc'[1] # pc[1]) =>
           /\ pc'[1].at = "idle"
           /\ pc[1].log = <<>>

(* C38: the loop of ss_batch_emit reads the batch's count on every         *)
(* iteration: an entry a handler adds to the batch during the call is      *)
(* handed to ss_emit by that same call; the call leaves the count at zero, *)
(* and a call on a batch whose count is zero emits nothing.                *)
C38_BatchEmitLive == [][C38_Step]_vars

(* ss_batch_emit is about to return having emitted an entry that a handler *)
(* added during the call.                                                  *)
C38_Witness ==
    /\ pc[1].at = "loop"
    /\ pc[1].i = batch.count
    /\ AddedDuringEmit # {}
    /\ \E j \in AddedDuringEmit :
          pc[1].log[j + 1][2] = batch.entries[j].data.value

----------------------------------------------------------------------------
(* The strdup copies held by the entries queued for a later flush, and by  *)
(* the entries of the running flush that are not yet through their free.   *)
QueuedStrings ==
    EntryStrings(g_context.deferred_queue, g_context.deferred_count)

AwaitingEmit ==
    IF ~flush.active THEN {}
    ELSE {flush.snap[k] : k \in flush.i + 1..flush.count}

(* C34: a string duplicated by ss_emit_deferred stays allocated while its  *)
(* entry is queued for a later flush, is not freed twice, and is freed     *)
(* once its entry has been emitted or the library cleaned up: the          *)
(* allocated strings are those of queued entries, of entries of the        *)
(* running flush up to their free, and of the batch.                       *)
C34_StringsReleasedOnce ==
    /\ ub \notin {"crashed", "stale"}
    /\ QueuedStrings \subseteq heap_strings
    /\ heap_strings \subseteq
          QueuedStrings \cup AwaitingEmit
              \cup EntryStrings(batch.entries, batch.count)

----------------------------------------------------------------------------
(* The handles the walk of activation f goes on to invoke when nothing     *)
(* changes: those of the slots not marked removed from next_slot on.       *)
WillInvoke(C, f) ==
    LET l == SelectSeq(Chain(C, f.next_slot, SS_MAX_SLOTS + 1),
                       LAMBDA c : ~C.slot[c].removed)
    IN  [j \in 1..Len(l) |-> C.slot[l[j]].handle]

(* Position of slot cell c in list l, 0 when it is not in it. *)
IndexOf(l, c) ==
    IF c \in Range(l) THEN CHOOSE j \in 1..Len(l) : l[j] = c ELSE 0

(* The cell of list l that holds handle h. *)
CellOf(C, l, h) == CHOOSE c \in Range(l) : C.slot[c].handle = h

C35_Step ==
    stack # <<>> /\ ub' \notin {"crashed", "hang"} =>
        LET f == stack[Len(stack)]
            h == g_context.next_handle
            l == SlotList(g_context', f.sig)
        IN  /\ (/\ Len(stack') = Len(stack)
                 /\ g_context'.next_handle = h + 1
                 /\ h \in Range(ListHandles(g_context', f.sig))) =>
                   (h \in Range(WillInvoke(g_context', stack'[Len(stack')]))
                      <=> /\ f.next_slot # 0
                          /\ IndexOf(l, f.next_slot) # 0
                          /\ IndexOf(l, CellOf(g_context', l, h))
                                > IndexOf(l, f.next_slot))
            /\ (Len(stack') = Len(stack) /\ stack'[Len(stack')].log # f.log) =>
                   /\ WillInvoke(g_context, f) # <<>>
                   /\ stack'[Len(stack')].log =
                         Append(f.log, Head(WillInvoke(g_context, f)))
            /\ Len(stack') < Len(stack) => WillInvoke(g_context, f) = <<>>
            /\ \A k \in 1..Len(stack') :
                   \A a, b \in 1..Len(stack'[k].log) :
                       stack'[k].log[a] = stack'[k].log[b] => a = b

(* C35: when a handler connects a slot to the signal being emitted, the    *)
(* slot is among those the walk in progress goes on to invoke exactly      *)
(* when the insertion put it after the slot the walk holds as next_slot    *)
(* (not before the running handler and not directly after it); the walk    *)
(* invokes next the first live slot from next_slot on, ends when there is  *)
(* none, and invokes no handle twice.                                      *)
C35_ConnectDuringEmit == [][C35_Step]_vars

(* The running callback belongs to a slot that an earlier callback of the  *)
(* same emission connected.                                                *)
C35_Witness ==
    /\ stack # <<>>
    /\ LET f == stack[Len(stack)]
       IN  /\ g_context.slot[f.slot].handle \notin Range(f.init)
           /\ g_context.slot[f.slot].handle = f.log[Len(f.log)]
           /\ Len(f.log) > 1

----------------------------------------------------------------------------
(* What a connect to name would return in context C. *)
ConnectRet(C, name) ==
    ss_connect_ex(C, name, "f1", SS_PRIORITY_NORMAL, SlotCell(C)).ret

LiveCount(C, s) == Len(LiveHandles(C, s))

C36_Step ==
    /\ (/\ stack # <<>> /\ Len(stack') = Len(stack)
         /\ disconnected' # disconnected
         /\ ub' \notin {"crashed", "hang"}) =>
           LET f == stack[Len(stack)]
           IN  (/\ g_context.signal_used[f.sig]
                /\ find_signal(g_context, f.name) = f.sig
                /\ g_context.sig[f.sig].slot_count
                      >= g_context.max_slots_per_signal
                /\ LiveCount(g_context', f.sig) < LiveCount(g_context, f.sig)) =>
                   ConnectRet(g_context', f.name) = "SS_ERR_MAX_SLOTS"
    /\ (stack # <<>> /\ stack' = <<>> /\ ub' \notin {"crashed", "hang"}) =>
           LET f == stack[Len(stack)]
           IN  (/\ find_signal(g_context', f.name) = f.sig
                /\ LiveCount(g_context', f.sig) < g_context'.max_slots_per_signal
                /\ (use_static => allocate_slot(g_context').cell # 0)
                /\ (~use_static => SlotCell(g_context') # 0)) =>
                   ConnectRet(g_context', f.name) = "SS_OK"
    /\ \A s \in SigIds :
           (g_context.signal_used[s] /\ g_context'.signal_used[s]
              /\ ub' \notin {"crashed", "hang"}) =>
               IF g_context'.next_handle # g_context.next_handle
               THEN LiveCount(g_context', s)
                       <= IF LiveCount(g_context', s) > LiveCount(g_context, s)
                          THEN g_context.max_slots_per_signal
                          ELSE LiveCount(g_context, s)
               ELSE LiveCount(g_context', s) <= LiveCount(g_context, s)

(* C36: during an emission on a signal whose slot count is at the cap, a   *)
(* handler that has disconnected a slot of the signal gets                 *)
(* SS_ERR_MAX_SLOTS from a connect to it; once the emission has returned   *)
(* a connect succeeds when fewer live slots than the cap remain; and the   *)
(* live slots of a signal grow only by a successful connect, which leaves  *)
(* at most the cap in force.                                               *)
C36_CapCountsTombstones == [][C36_Step]_vars

----------------------------------------------------------------------------
(* The slots of the list of s that are marked removed. *)
Tombstones(C, s) == {c \in Range(SlotList(C, s)) : C.slot[c].removed}

(* C37: a registered signal whose emitting depth is zero has no slot       *)
(* marked removed in its list: the sweep at the end of the outermost       *)
(* emission removed those marked during it, and a connect never links a    *)
(* slot that is already marked.                                            *)
C37_NoTombstoneAtRest ==
    Running =>
        \A s \in RegisteredSignals :
            g_context.sig[s].emitting = 0 => Tombstones(g_context, s) = {}

----------------------------------------------------------------------------
(* The step is the return of a call of thread t that passed its            *)
(* SS_MUTEX_LOCK line: the end of its locked part, or of the walk of its   *)
(* ss_emit.                                                                *)
Returns(t) ==
    /\ actor' = t
    /\ \/ pc[t].at = "body" /\ pc'[t].at # "body" /\ Len(stack') <= Len(stack)
       \/ t = 1 /\ pc[t].at = "handler" /\ Len(stack') < Len(stack)

C39_Step ==
    \A t \in Threads :
        Returns(t) =>
            /\ g_context.thread_safe => mutex.owner = t
            /\ pc'[t].at = "idle" => mutex'.owner # t

(* C39: a call that returns executes SS_MUTEX_UNLOCK only on a mutex its   *)
(* thread holds, and a thread that is in no call holds no mutex, whatever  *)
(* ss_set_thread_safe calls callbacks and the other thread make meanwhile. *)
C39_LockBalanced == [][C39_Step]_vars

----------------------------------------------------------------------------
(* The sum of the slot_counts of the signals in S. *)
RECURSIVE SumSlotCounts(_, _)
SumSlotCounts(C, S) ==
    IF S = {} THEN 0
    ELSE LET s == CHOOSE x \in S : TRUE
         IN  C.sig[s].slot_count + SumSlotCounts(C, S \ {s})

(* C40: the slot_count of every registered signal is the number of nodes   *)
(* of its slot list, marked removed or not; in the static build the pool's *)
(* slot_count is the number of slot_used flags that are set, and the sum   *)
(* of the slot_counts of the registered signals.                           *)
C40_SlotCounts ==
    Running =>
        /\ \A s \in RegisteredSignals :
              g_context.sig[s].slot_count = Len(SlotList(g_context, s))
        /\ use_static =>
              /\ g_context.slot_count =
                    Cardinality({c \in SlotIds : g_context.slot_used[c]})
              /\ g_context.slot_count =
                    SumSlotCounts(g_context, RegisteredSignals)

(* Static build, during an emission: a registered signal has two slots in  *)
(* its list, one of them marked removed, and another signal was            *)
(* unregistered before.                                                    *)
C40_Witness ==
    /\ use_static
    /\ Running
    /\ stack # <<>>
    /\ unregistered # {}
    /\ \E s \in RegisteredSignals :
          /\ g_context.sig[s].slot_count = 2
          /\ Cardinality(Tombstones(g_context, s)) = 1
          /\ g_context.slot_count = 2

====
